---- MODULE Spec2Model ----
(***************************************************************************)
(* Claude-Nightshift: the task lifecycle driver (task_runner.py), the      *)
(* personas that own the stages (personas/*.py), the label operations of   *)
(* the issue store (github_client.py) and the poll loop (main.py), for one *)
(* issue of the task repository.                                           *)
(*                                                                         *)
(* A stage handler is one action: it draws the results of the worker and   *)
(* of the collaborators it consults, updates the in-memory Task and leaves *)
(* the collaborator write calls it makes (comments, label calls, the       *)
(* change request) in `queue`, in program order.  Each write call is then  *)
(* a step of its own, so every point between two collaborator calls is a   *)
(* state.  The driver loop goes on only when the queue is drained.         *)
(*                                                                         *)
(* The issue store answers every label and comment request (the HTTP       *)
(* binding is outside the core); the results the code branches on (worker  *)
(* exit, verdict markers, git, change-request creation, merge) are drawn   *)
(* from all the values the code distinguishes.                             *)
(***************************************************************************)
EXTENDS Integers, Sequences, FiniteSets, TLC

VARIABLES
    labels,             \* issue store: the label names on the issue
    closed,             \* issue store: the issue is closed
    pr_open,            \* issue store: an open change request exists for the task branch
    max_review_cycles,  \* config: limits.max_review_cycles
    pc,                 \* position of the process
    task,               \* in-memory Task: current_stage, review_cycles, pr_number
    iteration,          \* _drive: iteration
    result,             \* _drive: the value it returns
    queue,              \* collaborator write calls of the current handler still to be made
    ssl,                \* set_stage_label in progress: current_labels read, removals left
    via,                \* history: the path on which _drive returned
    handlers,           \* history: stage handlers invoked by this _drive call
    last_handler,       \* history: the stage handler invoked last in this run
    review,             \* history: the last review of this run (verdict, cycles before it)
    back_to_dev,        \* history: code-review -> development returns in this run
    total_changes,      \* history: 'changes required' verdicts the task got over all runs
    diag_note,          \* history: a failure or escalation note was posted in this run
    start_labels,       \* history: the labels the issue started with
    requeues,           \* history: times a human put the ready label back
    crashes,            \* history: times the process stopped
    interrupted,        \* history: the process stopped between the label calls of a transition
    worktree,           \* disk: the task's worktree directory: "none", "this_run", "left_over"
    mirror,             \* disk: the bare mirror of the target repo exists
    rebuilt,            \* history: a worktree built in this run was removed and built again
    git_failed,         \* history: the git command that failed in the last _ensure_worktree call
    invoked,            \* history: the last stage handler invoked the worker
    trace,              \* history: the stage handlers invoked in this run, in order
    pushes,             \* history: commit_and_push calls of this run that pushed changes
    entry_pr,           \* history: a change request was open when run was called
    pr_calls,           \* history: create_pull_request calls made for the task
    schedule,           \* issue front matter: schedule
    night_only,         \* issue front matter: night_only
    records,            \* RecurringTracker.data: issue number -> record
    now,                \* the clock, in hours
    config_schedule,    \* config["schedule"]: timezone offset, night window
    issues,             \* select_task: the issues handed to it
    selected,           \* select_task: the issue it returned
    candidates,         \* history: the candidates select_task kept
    due,                \* history: the last is_due call and its result
    elapsed,            \* history: hours since the last record_run call, by issue
    git_faults,         \* environment: the git commands that can fail
    merged,             \* history: the change request of the task was merged
    daily_count,        \* DailyCounter.count
    daily_today,        \* DailyCounter.today, as a day number
    max_per_day,        \* DailyCounter.max_per_day, from limits.max_tasks_per_day
    fetched,            \* history: the last poll cycle called get_ready_issues
    shutdown_requested, \* main: the global flag the signal handler sets
    signal_at,          \* history: the position of the process when the signal came
    push_faults,        \* environment: the ways in which a push can fail
    git_log,            \* history: the git commands of the last commit_and_push call
    cp,                 \* history: the last commit_and_push call and what it returned
    output,             \* history: the worker output the last stage handler got
    origin,             \* the remote repository: the commits its branches point to
    bare,               \* disk: the bare mirror, its branches and remote-tracking refs
    checkout,           \* disk: the worktree directory, its branch, commit and changes
    wm,                 \* history: the last WorktreeManager call and how it ended
    commits             \* history: the number of commits made so far

vars == <<labels, closed, pr_open, max_review_cycles, pc, task, iteration, result,
          queue, ssl, via, handlers, last_handler, review, back_to_dev,
          total_changes, diag_note, start_labels, requeues, crashes, interrupted,
          worktree, mirror, rebuilt, git_failed, invoked, trace, pushes, entry_pr,
          pr_calls, schedule, night_only, records, now, config_schedule, issues,
          selected, candidates, due, elapsed, git_faults, merged,
          daily_count, daily_today, max_per_day, fetched, shutdown_requested,
          signal_at, push_faults, git_log, cp, output, origin, bare, checkout, wm,
          commits>>

store == <<labels, closed, pr_open>>
runhist == <<via, handlers, last_handler, review, back_to_dev, diag_note>>
taskhist == <<total_changes, start_labels, requeues, crashes>>
disk == <<worktree, mirror>>
prhist == <<pr_calls, merged>>
wthist == <<rebuilt, git_failed, invoked, trace, pushes, entry_pr>>
timing == <<schedule, night_only, now, config_schedule, git_faults>>
selection == <<issues, selected, candidates, due, elapsed>>
quota == <<daily_count, daily_today, max_per_day, fetched>>
signals == <<shutdown_requested, signal_at>>
stagehist == <<git_log, cp, output>>
gitrepo == <<origin, bare, checkout, wm, commits>>
extra == <<quota, signals, push_faults, stagehist, gitrepo>>

----------------------------------------------------------------------------
(* Bounds of the model *)

MaxReviewCyclesCfg == 2
MaxCrashes == 1
MaxRequeues == 1
MaxPushes == 2
MaxPrCalls == 2
MaxDays == 1
MaxTasksPerDay == 1

----------------------------------------------------------------------------
(* Vocabulary *)

stage_labels ==
    {"ready", "triage", "design", "development", "code-review", "qa",
     "awaiting-human", "done", "failed"}

non_stage_labels == {"claude", "night-only"}

\* _stage_from_labels: the order in which the labels are looked for
stage_order ==
    <<"triage", "design", "development", "code-review", "qa",
      "awaiting-human", "done", "failed">>

RECURSIVE first_stage_in(_, _)
first_stage_in(ls, i) ==
    IF i > Len(stage_order) THEN "triage"
    ELSE IF stage_order[i] \in ls THEN stage_order[i]
    ELSE first_stage_in(ls, i + 1)

stage_from_labels(ls) == first_stage_in(ls, 1)

max_iterations == 20

StageLabelsOn(ls) == ls \cap stage_labels

Op(o, a) == [op |-> o, arg |-> a]

NoTask == [current_stage |-> "triage", review_cycles |-> 0, pr_number |-> FALSE]
NoSsl == [active |-> FALSE, new |-> "none", rem |-> {}, add |-> FALSE]
NoReview == [verdict |-> "none", before |-> 0]

\* the labels an issue may start with: a queued task, alone or beside a
\* stage label somebody left on it
StartLabelSets ==
    { {"claude", "ready"} \cup x :
        x \in {{}, {"qa"}, {"failed"}, {"done"}, {"awaiting-human"}} }

Idle == queue = <<>> /\ ~ssl.active

----------------------------------------------------------------------------
(* Persona helpers: the write calls they make, in order *)

comment(kind) == <<Op("comment", kind)>>

\* a transition that passes over the development stage
transition_skips(new_stage) ==
    <<Op("set_stage", IF new_stage = "development" THEN "code-review" ELSE new_stage)>>

\* BasePersona.transition: the label call (the handler sets task.current_stage)
transition(new_stage) == <<Op("set_stage", new_stage)>>

\* BasePersona.fail: the note, then the label
fail == comment("failed") \o <<Op("set_stage", "failed")>>

\* GitHubClient.tag_human: the note, then the label
tag_human == comment("human") \o <<Op("set_stage", "awaiting-human")>>

escalate_to_human == tag_human

----------------------------------------------------------------------------
(* Collaborator write calls, one step each *)

\* the notes that report a fatal or escalated outcome
diagnostic_notes == {"failed", "human", "ceiling", "setup", "no_pr", "unhandled"}

post_comment ==
    /\ queue /= <<>> /\ Head(queue).op = "comment"
    /\ diag_note' = IF Head(queue).arg \in diagnostic_notes
                    THEN Head(queue).arg ELSE diag_note
    /\ queue' = Tail(queue)
    /\ UNCHANGED <<store, max_review_cycles, pc, task, iteration, result, ssl,
                   via, handlers, last_handler, review, back_to_dev, taskhist,
                   interrupted,
                   disk, wthist, prhist, records, timing, selection,
                   extra>>

remove_label ==
    /\ queue /= <<>> /\ Head(queue).op = "remove_label"
    /\ labels' = labels \ {Head(queue).arg}
    /\ queue' = Tail(queue)
    /\ UNCHANGED <<closed, pr_open, max_review_cycles, pc, task, iteration, result,
                   ssl, runhist, taskhist, interrupted,
                   disk, wthist, prhist, records, timing, selection,
                   extra>>

\* the loop removing the first stage label only
set_stage_removals_first_only(current_labels, new_stage) ==
    LET old == {l \in current_labels : l \in stage_labels /\ l /= new_stage}
    IN  IF old = {} THEN {} ELSE {CHOOSE l \in old : TRUE}

\* the loop leaving the old stage labels in place
set_stage_removals_none(current_labels, new_stage) == {}

\* set_stage_label: the stage labels the loop removes, given the labels read
set_stage_removals(current_labels, new_stage) ==
    {l \in current_labels : l \in stage_labels /\ l /= new_stage}

\* the new label added only when the issue has no label at all
set_stage_adds_if_bare(current_labels, new_stage) == current_labels = {}

\* set_stage_label: whether the new label is added
set_stage_adds(current_labels, new_stage) == new_stage \notin current_labels

\* set_stage_label, get_issue: the labels are read once
set_stage_label_read ==
    /\ queue /= <<>> /\ Head(queue).op = "set_stage" /\ ~ssl.active
    /\ ssl' = [active |-> TRUE, new |-> Head(queue).arg,
               rem |-> set_stage_removals(labels, Head(queue).arg),
               add |-> set_stage_adds(labels, Head(queue).arg)]
    /\ UNCHANGED <<store, max_review_cycles, pc, task, iteration, result, queue,
                   runhist, taskhist, interrupted,
                   disk, wthist, prhist, records, timing, selection,
                   extra>>

\* set_stage_label, the loop: one _remove_label call
set_stage_label_remove ==
    /\ ssl.active
    /\ \E l \in ssl.rem :
        /\ labels' = labels \ {l}
        /\ ssl' = [ssl EXCEPT !.rem = @ \ {l}]
    /\ UNCHANGED <<closed, pr_open, max_review_cycles, pc, task, iteration, result,
                   queue, runhist, taskhist, interrupted,
                   disk, wthist, prhist, records, timing, selection,
                   extra>>

\* set_stage_label, after the loop: the _add_label call, if any, and the return
set_stage_label_add ==
    /\ ssl.active /\ ssl.rem = {}
    /\ labels' = IF ssl.add THEN labels \cup {ssl.new} ELSE labels
    /\ ssl' = NoSsl
    /\ queue' = Tail(queue)
    /\ interrupted' = FALSE
    /\ UNCHANGED <<closed, pr_open, max_review_cycles, pc, task, iteration, result,
                   runhist, taskhist,
                   disk, wthist, prhist, records, timing, selection,
                   extra>>

\* create_pull_request: the store opens the change request it accepted
create_pull_request ==
    /\ queue /= <<>> /\ Head(queue).op = "create_pr"
    /\ pr_open' = (pr_open \/ Head(queue).arg = "created")
    /\ pr_calls' = IF pr_calls < MaxPrCalls THEN pr_calls + 1 ELSE pr_calls
    /\ queue' = Tail(queue)
    /\ UNCHANGED <<labels, closed, max_review_cycles, pc, task, iteration, result,
                   ssl, runhist, taskhist, interrupted,
                   disk, wthist, merged, records, timing, selection,
                   extra>>

\* merge_pull_request: a merged change request is no longer open
merge_pull_request ==
    /\ queue /= <<>> /\ Head(queue).op = "merge_pr"
    /\ pr_open' = (pr_open /\ Head(queue).arg /= "merged")
    /\ merged' = (merged \/ (pr_open /\ Head(queue).arg = "merged"))
    /\ queue' = Tail(queue)
    /\ UNCHANGED <<labels, closed, max_review_cycles, pc, task, iteration, result,
                   ssl, runhist, taskhist, interrupted,
                   disk, wthist, pr_calls, records, timing, selection,
                   extra>>

close_issue ==
    /\ queue /= <<>> /\ Head(queue).op = "close_issue"
    /\ closed' = TRUE
    /\ queue' = Tail(queue)
    /\ UNCHANGED <<labels, pr_open, max_review_cycles, pc, task, iteration, result,
                   ssl, runhist, taskhist, interrupted,
                   disk, wthist, prhist, records, timing, selection,
                   extra>>

----------------------------------------------------------------------------
(* WorktreeManager *)

\* create_worktree with setup_repo and remove_worktree: the git commands it runs
\* when the base branch resolves
git_commands(mirror_exists, wt_exists) ==
    (IF mirror_exists THEN {"fetch"} ELSE {"clone"})
        \cup (IF wt_exists THEN {"worktree_remove", "worktree_prune"} ELSE {})
        \cup {"fetch", "worktree_add", "set_url"}

\* the git command that fails in one create_worktree call, if any
possible_failures(mirror_exists, wt_exists) ==
    (git_commands(mirror_exists, wt_exists) \cap git_faults) \cup {"none"}

\* the failures setup_repo, remove_worktree and create_worktree catch and log
tolerated_git_failures == {"clone", "worktree_remove", "fetch"}

\* no failure of a git command reaches the caller
git_failure_raises_never(failed) == FALSE

\* _run_git raises for a failed command; the caller is reached unless the call
\* site catches it
git_failure_raises(failed) == failed \notin tolerated_git_failures \cup {"none"}

\* create_worktree with at most one failing git command: an existing worktree
\* directory is removed; the directory is there again once `worktree add` ran
create_worktree(wt, failed) ==
    [raised   |-> git_failure_raises(failed),
     worktree |-> IF failed \in {"worktree_prune", "worktree_add"}
                  THEN "none" ELSE "this_run"]

\* cleanup_all leaving the directories in place
cleanup_all_keeps(wt) == wt

\* cleanup_all: every directory under the worktrees directory is removed
cleanup_all(wt) == "none"

----------------------------------------------------------------------------
(* RecurringTracker *)

\* is_due: the intervals, in hours
intervals == [daily |-> 1 * 24, weekly |-> 7 * 24, monthly |-> 30 * 24]

\* datetime.isoformat: the date and the time of day
isoformat(t) == <<t \div 24, t % 24>>

\* datetime.fromisoformat
fromisoformat(str) == str[1] * 24 + str[2]

\* is_due with a strict comparison
is_due_strict(recs, issue_number, sched, t) ==
    IF issue_number \notin DOMAIN recs THEN TRUE
    ELSE IF recs[issue_number].last_run = <<>> THEN TRUE
    ELSE IF sched \notin DOMAIN intervals THEN TRUE
    ELSE t - fromisoformat(recs[issue_number].last_run) > intervals[sched]

\* is_due that ignores the record
is_due_always(recs, issue_number, sched, t) == TRUE

\* RecurringTracker.is_due at time t
is_due(recs, issue_number, sched, t) ==
    IF issue_number \notin DOMAIN recs THEN TRUE
    ELSE IF recs[issue_number].last_run = <<>> THEN TRUE
    ELSE IF sched \notin DOMAIN intervals THEN TRUE
    ELSE t - fromisoformat(recs[issue_number].last_run) >= intervals[sched]

\* RecurringTracker.record_run at time t
record_run(recs, issue_number, sched, t) ==
    [k \in DOMAIN recs \cup {issue_number} |->
        IF k = issue_number
        THEN [schedule |-> sched, last_run |-> isoformat(t)]
        ELSE recs[k]]

----------------------------------------------------------------------------
(* main: is_in_night_window and select_task *)

PRIORITY_ORDER == [high |-> 0, medium |-> 1, low |-> 2]

\* PRIORITY_ORDER.get(priority, 1)
priority_rank(p) == IF p \in DOMAIN PRIORITY_ORDER THEN PRIORITY_ORDER[p] ELSE 1

\* datetime.now(tz).hour
local_hour(t, cfg) == ((t % 24) + cfg.timezone) % 24

\* the window with its end included
is_in_night_window_closed(t, cfg) ==
    /\ cfg.night_window_start <= local_hour(t, cfg)
    /\ local_hour(t, cfg) <= cfg.night_window_end

\* is_in_night_window
is_in_night_window(t, cfg) ==
    /\ cfg.night_window_start <= local_hour(t, cfg)
    /\ local_hour(t, cfg) < cfg.night_window_end

\* select_task, the loop body: the issue is kept as a candidate
is_candidate(issue, in_night, recs, t) ==
    /\ ~(issue.night_only /\ ~in_night)
    /\ issue.schedule /= "once" => is_due(recs, issue.number, issue.schedule, t)

\* select_task, the loop: the candidates, in the order of the input
select_candidates(iss, cfg, recs, t) ==
    LET keep(i) == is_candidate(i, is_in_night_window(t, cfg), recs, t)
    IN  SelectSeq(iss, keep)

\* a sort that puts x before the elements of its rank
RECURSIVE insert_by_rank_before(_, _)
insert_by_rank_before(sorted, x) ==
    IF sorted = <<>> THEN <<x>>
    ELSE IF priority_rank(Head(sorted).priority) < priority_rank(x.priority)
    THEN <<Head(sorted)>> \o insert_by_rank_before(Tail(sorted), x)
    ELSE <<x>> \o sorted

\* list.sort by rank, stable: x goes behind the elements of its rank
RECURSIVE insert_by_rank(_, _)
insert_by_rank(sorted, x) ==
    IF sorted = <<>> THEN <<x>>
    ELSE IF priority_rank(Head(sorted).priority) <= priority_rank(x.priority)
    THEN <<Head(sorted)>> \o insert_by_rank(Tail(sorted), x)
    ELSE <<x>> \o sorted

RECURSIVE sort_by_priority(_)
sort_by_priority(c) ==
    IF c = <<>> THEN <<>>
    ELSE insert_by_rank(sort_by_priority(SubSeq(c, 1, Len(c) - 1)), c[Len(c)])

\* select_task returns None
NoIssue == [number |-> 0, night_only |-> FALSE, schedule |-> "once", priority |-> "none"]

select_task(iss, cfg, recs, t) ==
    LET c == sort_by_priority(select_candidates(iss, cfg, recs, t))
    IN  IF c = <<>> THEN NoIssue ELSE Head(c)

\* config.yaml, schedule: UTC and the night window from 2 to 8
DefaultSchedule == [timezone |-> 0, night_window_start |-> 2, night_window_end |-> 8]

NoDue == [called |-> FALSE, number |-> 0, schedule |-> "once", result |-> FALSE]

\* no call of select_task or is_due has been observed
NoSelection ==
    /\ issues = <<>>
    /\ selected = [called |-> FALSE, issue |-> NoIssue]
    /\ candidates = <<>>
    /\ due = NoDue
    /\ elapsed = <<>>

\* the issue of the task, as parse_issue reads its front matter
this_issue ==
    [number |-> 1, night_only |-> night_only, schedule |-> schedule,
     priority |-> "medium"]

----------------------------------------------------------------------------
(* WorktreeManager.commit_and_push: the git commands it runs and what it returns *)

\* one git command with the way it ended: "ok", "rejected" (a non-zero exit
\* status, CalledProcessError) or "timeout" (TimeoutExpired)
Cmd(c, e) == [cmd |-> c, exit |-> e]

\* the ways the normal push and the lease-protected push can end
push_outcomes ==
    {"ok"} \cup (IF "push_rejected" \in push_faults THEN {"rejected"} ELSE {})
           \cup (IF "push_timeout" \in push_faults THEN {"timeout"} ELSE {})

lease_outcomes ==
    {"ok"} \cup (IF "lease_rejected" \in push_faults THEN {"rejected"} ELSE {})
           \cup (IF "lease_timeout" \in push_faults THEN {"timeout"} ELSE {})

\* a test of the status output that never finds the worktree clean
nothing_to_commit_never(dirty) == FALSE

\* commit_and_push: `status --porcelain` printed nothing
nothing_to_commit(dirty) == ~dirty

\* a push that is never tried again
push_is_retried_never(exit) == FALSE

\* commit_and_push: the except clause catches CalledProcessError only
push_is_retried(exit) == exit = "rejected"

\* commit_and_push in a worktree with (dirty) or without modifications, when the
\* normal push ends as `push` and the lease-protected one as `lease`; git commit
\* exits with an error status when nothing is staged
commit_and_push(dirty, push, lease) ==
    LET staged == <<Cmd("add", "ok"), Cmd("status", "ok")>>
        commit_exit == IF dirty THEN "ok" ELSE "rejected"
        pushed == staged \o <<Cmd("commit", "ok"), Cmd("rev_parse", "ok"),
                              Cmd("push", push)>>
    IN  IF nothing_to_commit(dirty)
        THEN [log |-> staged, returned |-> "false", committed |-> FALSE]
        ELSE IF commit_exit /= "ok"
        THEN [log |-> staged \o <<Cmd("commit", commit_exit)>>,
              returned |-> "raised", committed |-> FALSE]
        ELSE IF push = "ok"
        THEN [log |-> pushed, returned |-> "true", committed |-> TRUE]
        ELSE IF push_is_retried(push)
        THEN [log |-> pushed \o <<Cmd("push_force_with_lease", lease)>>,
              returned |-> IF lease = "ok" THEN "true" ELSE "raised",
              committed |-> TRUE]
        ELSE [log |-> pushed, returned |-> "raised", committed |-> TRUE]

----------------------------------------------------------------------------
(* WorktreeManager at the level of git: the remote, the bare mirror and the *)
(* worktree; a commit is the sequence of commit numbers from its root to it  *)

MaxCommits == 4

NoCommit == <<>>

\* the base branch and the task branch, neither present
NoRefs == [base |-> NoCommit, task |-> NoCommit]

\* no mirror directory
NoBare ==
    [exists |-> FALSE, refspec |-> FALSE, heads |-> NoRefs, remotes |-> NoRefs,
     registered |-> FALSE]

\* no worktree directory
NoCheckout ==
    [kind |-> "none", branch |-> "none", head |-> NoCommit, dirty |-> FALSE,
     remotes |-> NoRefs]

NoSnapshot == [path |-> "none", kind |-> "none", branch |-> "none", head |-> NoCommit]

\* the last call of a WorktreeManager method: what it returned or that it
\* raised, the path create_worktree took, the mirror as its rev-parse commands
\* saw it, the worktree as the call found it, and whether the call before it
\* was a create_worktree that returned
NoCall ==
    [op |-> "none", raised |-> FALSE, returned |-> "none", path |-> "none",
     base_ref |-> "none", seen |-> NoBare, prev |-> NoSnapshot,
     follows |-> FALSE]

\* a is b or an ancestor of b
is_ancestor(a, b) == a /= NoCommit /\ Len(a) <= Len(b) /\ SubSeq(b, 1, Len(a)) = a

\* git fetch --all in the mirror: with the refspec that `remote add` configures
\* the remote-tracking refs follow the remote; a bare clone has no refspec and
\* its refs stay
fetch(b, o, prune) ==
    IF ~b.refspec THEN b
    ELSE [b EXCEPT !.remotes =
            [r \in DOMAIN NoRefs |->
                IF o[r] /= NoCommit THEN o[r]
                ELSE IF prune THEN NoCommit ELSE b.remotes[r]]]

\* git clone --bare: the branches of the remote become local branches
clone_bare(o) ==
    [exists |-> TRUE, refspec |-> FALSE, heads |-> o, remotes |-> NoRefs,
     registered |-> FALSE]

\* makedirs, git init --bare, git remote add origin
init_bare ==
    [exists |-> TRUE, refspec |-> TRUE, heads |-> NoRefs, remotes |-> NoRefs,
     registered |-> FALSE]

\* setup_repo when the fetch or the clone ends as net
setup_repo(b, o, net) ==
    IF b.exists
    THEN [bare |-> IF net = "ok" THEN fetch(b, o, TRUE) ELSE b,
          raised |-> net = "timeout"]
    ELSE [bare |-> IF net = "ok" THEN clone_bare(o)
                   ELSE IF net = "rejected" THEN init_bare ELSE b,
          raised |-> net = "timeout"]

\* create_worktree: the first of origin/<base> and <base> that rev-parse verifies
resolve_base(b) ==
    IF b.remotes.base /= NoCommit THEN "origin/base"
    ELSE IF b.heads.base /= NoCommit THEN "base"
    ELSE "none"

\* the commit a base reference names
base_commit(b, ref) ==
    IF ref = "origin/base" THEN b.remotes.base
    ELSE IF ref = "base" THEN b.heads.base
    ELSE NoCommit

\* a test that never finds the branch
branch_exists_never(b) == FALSE

\* create_worktree: rev-parse --verify <branch_name> in the mirror
branch_exists(b) == b.heads.task /= NoCommit

\* worktree_name and worktree_path of the task
worktree_path == "worktrees/repo_1"

\* the path setup_repo returns
repo_dir == "repos/repo"

\* a removal that leaves the worktree registered in the mirror
pruned_never(b) == b

\* remove_worktree and cleanup_all: the directory is removed and the mirror pruned
pruned(b) == [b EXCEPT !.registered = FALSE]

\* create_worktree when the fetch or clone of setup_repo ends as net1 and its
\* own fetch as net2; `git worktree add` exits with an error status for a
\* branch that is checked out in a registered worktree, and with -b for a
\* branch that exists
create_worktree_git(o, b, c, net1, net2) ==
    LET s == setup_repo(b, o, net1)
        removed == c.kind /= "none"
        b1 == IF removed THEN pruned(s.bare) ELSE s.bare
        c1 == IF removed THEN NoCheckout ELSE c
        b2 == IF net2 = "ok" THEN fetch(b1, o, FALSE) ELSE b1
        base_ref == resolve_base(b2)
        attach == branch_exists(b2)
        add_fails == IF attach THEN b2.registered ELSE b2.heads.task /= NoCommit
        head == IF attach THEN b2.heads.task ELSE base_commit(b2, base_ref)
        failed(bb, cc, sn) ==
            [bare |-> bb, checkout |-> cc, raised |-> TRUE, returned |-> "none",
             path |-> "none", base_ref |-> "none", seen |-> sn]
    IN  IF s.raised THEN failed(s.bare, c, NoBare)
        ELSE IF net2 = "timeout" THEN failed(b1, c1, NoBare)
        ELSE IF base_ref = "none"
        THEN [bare |-> b2,
              checkout |-> [kind |-> "standalone", branch |-> "task",
                            head |-> NoCommit, dirty |-> FALSE, remotes |-> NoRefs],
              raised |-> FALSE, returned |-> worktree_path,
              path |-> "empty", base_ref |-> "none", seen |-> b2]
        ELSE IF add_fails THEN failed(b2, c1, b2)
        ELSE [bare |-> [b2 EXCEPT !.heads.task = head, !.registered = TRUE],
              checkout |-> [kind |-> "linked", branch |-> "task", head |-> head,
                            dirty |-> FALSE, remotes |-> NoRefs],
              raised |-> FALSE, returned |-> worktree_path,
              path |-> IF attach THEN "attach" ELSE "create",
              base_ref |-> base_ref, seen |-> b2]

\* the remote accepts a normal push: the branch is new or is fast-forwarded
push_accepts(tip, head) == tip = NoCommit \/ is_ancestor(tip, head)

\* the remote accepts a push --force-with-lease: its branch is where the
\* remote-tracking ref of the pushing repository says, or absent when there
\* is no such ref
lease_accepts(tip, tracking) == tip = tracking

\* the remote-tracking ref of the task branch in the repository of the worktree
tracking_ref(b, c) ==
    IF c.kind = "standalone" THEN c.remotes.task
    ELSE IF b.refspec THEN b.remotes.task ELSE NoCommit

----------------------------------------------------------------------------
(* main: DailyCounter and the shutdown flag *)

\* limits.get("max_tasks_per_day", 10)
default_max_tasks_per_day == 10

\* date.today(), as a day number
today(t) == t \div 24

\* DailyCounter._reset_if_new_day at time t
reset_if_new_day(count, day, t) ==
    IF today(t) /= day
    THEN [count |-> 0, today |-> today(t)]
    ELSE [count |-> count, today |-> day]

\* DailyCounter.can_run at time t, after the reset
can_run(count, day, t) == reset_if_new_day(count, day, t).count < max_per_day

\* DailyCounter.increment at time t
increment(count, day, t) ==
    [count |-> reset_if_new_day(count, day, t).count + 1,
     today |-> reset_if_new_day(count, day, t).today]

\* a loop that never looks at the flag
loop_continues_always(flag) == TRUE

\* main: the condition of `while not shutdown_requested`, also that of _sleep
loop_continues(flag) == ~flag

\* no commit_and_push call has been made
NoCp == [called |-> FALSE, dirty |-> FALSE, returned |-> "none"]

\* the git-level state is not looked at
GitUnused ==
    /\ origin = NoRefs /\ bare = NoBare /\ checkout = NoCheckout
    /\ wm = NoCall /\ commits = 0

\* a new DailyCounter, the flag as the module sets it, nothing logged
NewProcess ==
    /\ daily_count = 0 /\ daily_today = today(now) /\ fetched = FALSE
    /\ shutdown_requested = FALSE /\ signal_at = "none"
    /\ git_log = <<>> /\ cp = NoCp /\ output = "none"

----------------------------------------------------------------------------
(* main: the poll loop *)

\* get_ready_issues: open issues labelled claude and ready
get_ready_issues == ~closed /\ {"claude", "ready"} \subseteq labels

\* get_awaiting_human_issues: open issues labelled claude and awaiting-human
get_awaiting_human_issues == ~closed /\ {"claude", "awaiting-human"} \subseteq labels

\* main, one pass of the poll loop up to the call of run
main_poll ==
    /\ pc = "poll" /\ loop_continues(shutdown_requested)
    /\ daily_count' = reset_if_new_day(daily_count, daily_today, now).count
    /\ daily_today' = reset_if_new_day(daily_count, daily_today, now).today
    /\ fetched' = can_run(daily_count, daily_today, now)
    /\ pc' = IF /\ can_run(daily_count, daily_today, now)
                 /\ get_ready_issues
                 /\ select_task(<<this_issue>>, config_schedule, records, now) /= NoIssue
              THEN "selected" ELSE "sleep"
    /\ UNCHANGED <<store, max_review_cycles, task, iteration, result, queue, ssl,
                   runhist, taskhist, interrupted,
                   disk, wthist, prhist, records, timing, selection,
                   max_per_day, signals, push_faults, stagehist, gitrepo>>

\* main: the loop condition fails and main returns
main_exit ==
    /\ pc = "poll" /\ ~loop_continues(shutdown_requested)
    /\ pc' = "exited"
    /\ UNCHANGED <<store, max_review_cycles, task, iteration, result, queue, ssl,
                   runhist, taskhist, interrupted,
                   disk, wthist, prhist, records, timing, selection,
                   extra>>

sleep ==
    /\ pc = "sleep"
    /\ pc' = "poll"
    /\ UNCHANGED <<store, max_review_cycles, task, iteration, result, queue, ssl,
                   runhist, taskhist, interrupted,
                   disk, wthist, prhist, records, timing, selection,
                   extra>>

----------------------------------------------------------------------------
(* TaskRunner.run *)

\* a swap that takes ready off and sets no stage label
run_swap_remove_only(stage, issue_labels) ==
    IF stage = "triage" /\ "ready" \in issue_labels
    THEN <<Op("remove_label", "ready")>>
    ELSE <<>>

\* run: the swap from ready to the first stage
run_swap(stage, issue_labels) ==
    IF stage = "triage" /\ "ready" \in issue_labels
    THEN <<Op("remove_label", "ready"), Op("set_stage", "triage")>>
    ELSE <<>>

\* run, entry: parse_issue, then the swap
run ==
    /\ pc = "selected"
    /\ task' = [NoTask EXCEPT !.current_stage = stage_from_labels(labels)]
    /\ queue' = run_swap(stage_from_labels(labels), labels)
    /\ iteration' = 0
    /\ result' = "none"
    /\ via' = "none"
    /\ handlers' = 0
    /\ last_handler' = "none"
    /\ review' = NoReview
    /\ back_to_dev' = 0
    /\ diag_note' = "none"
    /\ rebuilt' = FALSE /\ git_failed' = "none" /\ invoked' = FALSE
    /\ trace' = <<>> /\ pushes' = 0
    /\ entry_pr' = pr_open
    /\ git_log' = <<>> /\ cp' = NoCp /\ output' = "none"
    /\ pc' = "drive"
    /\ UNCHANGED <<store, max_review_cycles, ssl, taskhist, interrupted,
                   disk, prhist, records, timing, selection,
                   quota, signals, push_faults, gitrepo>>

\* run, after _drive: the outcome is logged, a recurring task that is done is
\* recorded, and the finally clause cleans up the worktrees; the `worktree prune`
\* of cleanup_all may fail, and then run raises instead of returning; the Task
\* and the locals of _drive are gone
run_return ==
    /\ pc = "returned" /\ Idle
    /\ records' = IF result = "done" /\ schedule /= "once"
                  THEN record_run(records, this_issue.number, schedule, now)
                  ELSE records
    /\ worktree' = cleanup_all(worktree)
    /\ \E prune \in IF mirror THEN {"ok", "fails"} ELSE {"ok"} :
        pc' = IF prune = "ok" THEN "after_run" ELSE "run_raised"
    /\ task' = NoTask /\ iteration' = 0
    /\ via' = "none" /\ handlers' = 0 /\ last_handler' = "none"
    /\ review' = NoReview /\ back_to_dev' = 0 /\ diag_note' = "none"
    /\ UNCHANGED <<store, max_review_cycles, result, queue, ssl, taskhist,
                   interrupted, mirror, wthist, prhist, timing, selection,
                   extra>>

\* a run that reports every outcome as completed
run_returns_always(r) == TRUE

\* run: the value it returns for the outcome of _drive
run_returns(r) == r \in {"done", "failed"}

\* main, after run returned: the daily counter, cleanup_all again, the pause
main_after_run ==
    /\ pc = "after_run"
    /\ daily_count' = IF run_returns(result)
                       THEN increment(daily_count, daily_today, now).count
                       ELSE daily_count
    /\ daily_today' = IF run_returns(result)
                       THEN increment(daily_count, daily_today, now).today
                       ELSE daily_today
    /\ git_log' = <<>> /\ cp' = NoCp /\ output' = "none"
    /\ worktree' = cleanup_all(worktree)
    /\ pc' = "poll"
    /\ result' = "none"
    /\ rebuilt' = FALSE /\ git_failed' = "none" /\ invoked' = FALSE
    /\ trace' = <<>> /\ pushes' = 0 /\ entry_pr' = FALSE
    /\ UNCHANGED <<store, max_review_cycles, task, iteration, queue, ssl, runhist,
                   taskhist, interrupted,
                   mirror, prhist, records, timing, selection,
                   max_per_day, fetched, signals, push_faults, gitrepo>>

\* main, the except clause: run raised; the error is logged and the loop sleeps
main_except ==
    /\ pc = "run_raised"
    /\ pc' = "sleep"
    /\ result' = "none"
    /\ rebuilt' = FALSE /\ git_failed' = "none" /\ invoked' = FALSE
    /\ trace' = <<>> /\ pushes' = 0 /\ entry_pr' = FALSE
    /\ git_log' = <<>> /\ cp' = NoCp /\ output' = "none"
    /\ UNCHANGED <<store, max_review_cycles, task, iteration, queue, ssl, runhist,
                   taskhist, interrupted,
                   disk, prhist, records, timing, selection,
                   quota, signals, push_faults, gitrepo>>

----------------------------------------------------------------------------
(* TaskRunner._drive and the stage handlers *)

\* the loop condition off by one
loop_guard_inclusive(i) == i <= max_iterations

\* a loop that stops one iteration early
loop_guard_early(i) == i < max_iterations - 1

\* _drive: the condition of the while loop
loop_guard(i) == i < max_iterations

\* the cycle limit test with a strict comparison
review_limit_exceeded(cycles) == cycles > max_review_cycles

\* ArchitectPersona.execute_review: the cycle limit test after the increment
review_limit_reached(cycles) == cycles >= max_review_cycles

\* every development pass taken for a revision
is_revision_always(t) == TRUE

\* _run_development: is_revision (qa_cycles is never incremented by the driver)
is_revision(t) == t.review_cycles > 0

\* a driver that goes on to the next iteration after a failure
drive_continues_after_failure(r) == r \notin {"done", "blocked"}

\* _drive: the check of the handler's result; the loop goes on unless the
\* result is done, blocked or failed
drive_continues(r) == r \notin {"done", "blocked", "failed"}

\* what every stage-handler call of one _drive iteration does to the loop state:
\* the handler's write calls q, the Task t it leaves, the value r it returns
\* and the path v, on which _drive returns unless r is "continue"
handled(name, q, t, r, v) ==
    /\ iteration' = iteration + 1
    /\ handlers' = handlers + 1
    /\ last_handler' = name
    /\ trace' = Append(trace, name)
    /\ queue' = q
    /\ task' = t
    /\ result' = r
    /\ via' = IF drive_continues(r) THEN via ELSE v
    /\ pc' = IF drive_continues(r) THEN "drive" ELSE "returned"

\* _ensure_worktree, the except branch: the setup-failure note, then the label
ensure_worktree_failed == comment("setup") \o <<Op("set_stage", "failed")>>

\* _ensure_worktree: the call of create_worktree in which the git command
\* `failed` fails, and what it does to the disk
ensure_worktree(failed) ==
    /\ mirror' = TRUE
    /\ worktree' = create_worktree(worktree, failed).worktree
    /\ rebuilt' = (rebuilt \/ worktree = "this_run")
    /\ git_failed' = failed

\* a stage handler that does not call _ensure_worktree
no_worktree ==
    /\ git_failed' = "none"
    /\ UNCHANGED <<disk, rebuilt>>

\* a triage that fails the task unless the worker output carries a marker
triage_branch_strict(out) ==
    IF out = "ready" THEN "design"
    ELSE IF out = "needs_clarification" THEN "escalate"
    ELSE "fail"

\* ProductOwnerPersona.execute: the branch taken for a worker output; the else
\* branch takes whatever carries neither marker
triage_branch(out) ==
    IF out = "worker_failed" THEN "fail"
    ELSE IF out = "ready" THEN "design"
    ELSE IF out = "needs_clarification" THEN "escalate"
    ELSE "design"

\* _run_triage with ProductOwnerPersona.execute
run_triage ==
    /\ pc = "drive" /\ Idle /\ loop_guard(iteration)
    /\ task.current_stage = "triage"
    /\ \E out \in {"worker_failed", "ready", "needs_clarification", "ambiguous"} :
        /\ output' = out
        /\ CASE triage_branch(out) = "fail" ->
                handled("triage", fail, task, "failed", "handler")
             [] triage_branch(out) = "escalate" ->
                handled("triage", escalate_to_human,
                        [task EXCEPT !.current_stage = "awaiting-human"],
                        "blocked", "clarification")
             [] OTHER ->
                handled("triage", comment("note") \o transition("design"),
                        [task EXCEPT !.current_stage = "design"],
                        "continue", "handler")
    /\ no_worktree /\ invoked' = TRUE
    /\ UNCHANGED <<store, max_review_cycles, ssl, review, back_to_dev, diag_note,
                   taskhist, interrupted, pushes, entry_pr, prhist, records,
                   timing, selection,
                   quota, signals, push_faults, git_log, cp, gitrepo>>

\* _run_design with _ensure_worktree and ArchitectPersona.execute_design
run_design ==
    /\ pc = "drive" /\ Idle /\ loop_guard(iteration)
    /\ task.current_stage = "design"
    /\ \E failed \in possible_failures(mirror, worktree /= "none"),
          out \in {"worker_failed", "ok"} :
        /\ ensure_worktree(failed)
        /\ invoked' = ~create_worktree(worktree, failed).raised
        /\ output' = IF create_worktree(worktree, failed).raised THEN "none" ELSE out
        /\ CASE create_worktree(worktree, failed).raised ->
                handled("design", ensure_worktree_failed, task, "failed", "setup")
             [] OTHER ->
                IF out = "worker_failed"
                THEN handled("design", fail, task, "failed", "handler")
                ELSE handled("design", comment("note") \o transition("development"),
                             [task EXCEPT !.current_stage = "development"],
                             "continue", "handler")
    /\ UNCHANGED <<store, max_review_cycles, ssl, review, back_to_dev, diag_note,
                   taskhist, interrupted, pushes, entry_pr, prhist, records,
                   timing, selection,
                   quota, signals, push_faults, git_log, cp, gitrepo>>

\* the store accepts a change request for a branch only while none is open for it
pr_results == IF pr_open THEN {"rejected"} ELSE {"created", "rejected"}

\* DeveloperPersona.execute after a successful commit_and_push call: the notes
developer_notes(has_changes) ==
    IF has_changes THEN comment("note") ELSE comment("note") \o comment("note")

\* _run_development with _ensure_worktree, DeveloperPersona.execute and _create_pr
run_development ==
    /\ pc = "drive" /\ Idle /\ loop_guard(iteration)
    /\ task.current_stage = "development"
    /\ \E failed \in possible_failures(mirror, worktree /= "none"),
          worker \in {"worker_failed", "ok"}, dirty \in BOOLEAN,
          push \in push_outcomes, lease \in lease_outcomes,
          pr \in pr_results :
      LET called == ~create_worktree(worktree, failed).raised /\ worker = "ok"
          r == commit_and_push(dirty, push, lease)
          out == IF worker = "worker_failed" THEN "worker_failed"
                 ELSE IF r.returned = "raised" THEN "push_raises"
                 ELSE IF r.returned = "false" THEN "clean"
                 ELSE "changes"
      IN
        /\ ensure_worktree(failed)
        /\ invoked' = ~create_worktree(worktree, failed).raised
        /\ output' = IF create_worktree(worktree, failed).raised THEN "none" ELSE worker
        /\ git_log' = IF called THEN r.log ELSE <<>>
        /\ cp' = IF called
                  THEN [called |-> TRUE, dirty |-> dirty, returned |-> r.returned]
                  ELSE NoCp
        /\ pushes' = IF ~create_worktree(worktree, failed).raised
                        /\ out = "changes" /\ pushes < MaxPushes
                     THEN pushes + 1 ELSE pushes
        /\ CASE create_worktree(worktree, failed).raised ->
                handled("development", ensure_worktree_failed, task, "failed", "setup")
          [] ~create_worktree(worktree, failed).raised /\ out = "worker_failed" ->
                handled("development", fail, task, "failed", "handler")
          [] ~create_worktree(worktree, failed).raised /\ out = "push_raises" ->
                \* commit_and_push raises: run's except posts the note and the label
                handled("development",
                        comment("unhandled") \o <<Op("set_stage", "failed")>>,
                        task, "failed", "exception")
          [] ~create_worktree(worktree, failed).raised
                /\ out = "clean" /\ ~is_revision(task) ->
                handled("development", fail, task, "failed", "handler")
          [] OTHER ->
                IF task.pr_number
                THEN handled("development",
                             developer_notes(out = "changes")
                                 \o <<Op("set_stage", "code-review")>>,
                             [task EXCEPT !.current_stage = "code-review"],
                             "continue", "handler")
                ELSE IF pr = "created"
                THEN handled("development",
                             developer_notes(out = "changes")
                                 \o <<Op("create_pr", "created")>> \o comment("note")
                                 \o <<Op("set_stage", "code-review")>>,
                             [task EXCEPT !.current_stage = "code-review",
                                          !.pr_number = TRUE],
                             "continue", "handler")
                ELSE handled("development",
                             developer_notes(out = "changes")
                                 \o <<Op("create_pr", "rejected")>>,
                             task, "failed", "pr_failed")
    /\ UNCHANGED <<store, max_review_cycles, ssl, review, back_to_dev, diag_note,
                   taskhist, interrupted, entry_pr, prhist, records, timing,
                   selection,
                   quota, signals, push_faults, gitrepo>>

\* _run_code_review with _find_pr_number and ArchitectPersona.execute_review
run_code_review ==
    /\ pc = "drive" /\ Idle /\ loop_guard(iteration)
    /\ task.current_stage = "code-review"
    /\ \E out \in {"no_diff", "worker_failed", "approved", "changes_required",
                   "ambiguous"} :
        LET found == task.pr_number \/ pr_open
            t == [task EXCEPT !.pr_number = found]
            cycles == task.review_cycles + 1
        IN  /\ output' = IF found /\ out /= "no_diff" THEN out ELSE "none"
            /\ CASE ~found ->
                    /\ invoked' = FALSE
                    /\ handled("code-review",
                               comment("no_pr") \o <<Op("set_stage", "failed")>>,
                               t, "failed", "no_pr")
                    /\ UNCHANGED <<review, back_to_dev, total_changes>>
              [] found /\ out \in {"no_diff", "worker_failed"} ->
                    /\ invoked' = (out = "worker_failed")
                    /\ handled("code-review", fail, t, "failed", "handler")
                    /\ UNCHANGED <<review, back_to_dev, total_changes>>
              [] found /\ out = "approved" ->
                    /\ invoked' = TRUE
                    /\ handled("code-review", comment("note") \o tag_human,
                               t, "blocked", "approved")
                    /\ review' = [verdict |-> out, before |-> task.review_cycles]
                    /\ UNCHANGED <<back_to_dev, total_changes>>
              [] found /\ out = "changes_required" /\ review_limit_reached(cycles) ->
                    /\ invoked' = TRUE
                    /\ handled("code-review", escalate_to_human,
                               [t EXCEPT !.review_cycles = cycles,
                                         !.current_stage = "awaiting-human"],
                               "blocked", "escalated")
                    /\ review' = [verdict |-> out, before |-> task.review_cycles]
                    /\ total_changes' = total_changes + 1
                    /\ UNCHANGED back_to_dev
              [] found /\ out = "changes_required" /\ ~review_limit_reached(cycles) ->
                    /\ invoked' = TRUE
                    /\ handled("code-review",
                               comment("note") \o transition("development"),
                               [t EXCEPT !.review_cycles = cycles,
                                         !.current_stage = "development"],
                               "continue", "handler")
                    /\ review' = [verdict |-> out, before |-> task.review_cycles]
                    /\ total_changes' = total_changes + 1
                    /\ back_to_dev' = back_to_dev + 1
              [] found /\ out = "ambiguous" ->
                    /\ invoked' = TRUE
                    /\ handled("code-review",
                               comment("note") \o transition("development"),
                               [t EXCEPT !.current_stage = "development"],
                               "continue", "handler")
                    /\ review' = [verdict |-> out, before |-> task.review_cycles]
                    /\ back_to_dev' = back_to_dev + 1
                    /\ UNCHANGED total_changes
    /\ no_worktree
    /\ UNCHANGED <<store, max_review_cycles, ssl, diag_note, start_labels, requeues,
                   crashes, interrupted, pushes, entry_pr, prhist, records,
                   timing, selection,
                   quota, signals, push_faults, git_log, cp, gitrepo>>

\* a driver that reports a task it finds failed as done
drive_return_for_done(stage) ==
    IF stage \in {"done", "failed"} THEN "done"
    ELSE IF stage = "awaiting-human" THEN "blocked"
    ELSE "failed"

\* _drive: the value returned for a stage that has no handler
drive_return_for(stage) ==
    IF stage \in {"done", "failed"} THEN stage
    ELSE IF stage = "awaiting-human" THEN "blocked"
    ELSE "failed"

\* _drive: the current stage is done, failed or awaiting-human
drive_terminal ==
    /\ pc = "drive" /\ Idle /\ loop_guard(iteration)
    /\ task.current_stage \in {"done", "failed", "awaiting-human"}
    /\ iteration' = iteration + 1
    /\ result' = drive_return_for(task.current_stage)
    /\ via' = "terminal"
    /\ pc' = "returned"
    /\ UNCHANGED <<store, max_review_cycles, task, queue, ssl, handlers, last_handler,
                   review, back_to_dev, diag_note, taskhist, interrupted,
                   disk, wthist, prhist, records, timing, selection,
                   extra>>

\* _drive: the else branch, a stage the driver does not know (qa)
drive_unknown ==
    /\ pc = "drive" /\ Idle /\ loop_guard(iteration)
    /\ task.current_stage \notin {"triage", "design", "development", "code-review",
                                  "done", "failed", "awaiting-human"}
    /\ iteration' = iteration + 1
    /\ result' = drive_return_for(task.current_stage)
    /\ via' = "unknown"
    /\ pc' = "returned"
    /\ UNCHANGED <<store, max_review_cycles, task, queue, ssl, handlers, last_handler,
                   review, back_to_dev, diag_note, taskhist, interrupted,
                   disk, wthist, prhist, records, timing, selection,
                   extra>>

\* _drive: the loop ran out; the note, the failed label, "failed"
drive_ceiling ==
    /\ pc = "drive" /\ Idle /\ ~loop_guard(iteration)
    /\ queue' = comment("ceiling") \o <<Op("set_stage", "failed")>>
    /\ result' = "failed"
    /\ via' = "ceiling"
    /\ pc' = "returned"
    /\ UNCHANGED <<store, max_review_cycles, task, iteration, ssl, handlers,
                   last_handler, review, back_to_dev, diag_note, taskhist, interrupted,
                   disk, wthist, prhist, records, timing, selection,
                   extra>>

----------------------------------------------------------------------------
(* TaskRunner.handle_human_response *)

\* handle_human_response: the calls made for the latest comment
human_response_calls(latest, merge) ==
    IF latest = "approve"
    THEN (IF pr_open
          THEN <<Op("merge_pr", merge)>> \o comment("note")
          ELSE comment("note"))
         \o <<Op("set_stage", "done"), Op("close_issue", "none")>>
    ELSE IF latest = "changes"
    THEN <<Op("set_stage", "ready")>> \o comment("note")
    ELSE <<>>

handle_human_response ==
    /\ pc = "sleep" /\ Idle
    /\ get_awaiting_human_issues
    /\ \E latest \in {"approve", "changes", "other"}, merge \in {"merged", "refused"} :
        queue' = human_response_calls(latest, merge)
    /\ pc' = "human"
    /\ UNCHANGED <<store, max_review_cycles, task, iteration, result, ssl, runhist,
                   taskhist, interrupted,
                   disk, wthist, prhist, records, timing, selection,
                   extra>>

handle_human_response_return ==
    /\ pc = "human" /\ Idle
    /\ pc' = "sleep"
    /\ UNCHANGED <<store, max_review_cycles, task, iteration, result, queue, ssl,
                   runhist, taskhist, interrupted,
                   disk, wthist, prhist, records, timing, selection,
                   extra>>

----------------------------------------------------------------------------
(* The environment: the process stops and is started again; a human puts the *)
(* ready label back on the issue                                             *)

\* between the label calls of one transition: inside set_stage_label, or after
\* remove_label('ready') and before set_stage_label('triage') in run
in_label_transition ==
    \/ ssl.active
    \/ /\ pc = "drive" /\ iteration = 0
       /\ queue = <<Op("set_stage", "triage")>>

crash ==
    /\ pc /= "stopped" /\ crashes < MaxCrashes
    /\ pc' = "stopped"
    /\ crashes' = crashes + 1
    /\ interrupted' = (interrupted \/ in_label_transition)
    /\ task' = NoTask /\ iteration' = 0 /\ result' = "none"
    /\ queue' = <<>> /\ ssl' = NoSsl
    /\ via' = "none" /\ handlers' = 0 /\ last_handler' = "none"
    /\ review' = NoReview /\ back_to_dev' = 0 /\ diag_note' = "none"
    /\ rebuilt' = FALSE /\ git_failed' = "none" /\ invoked' = FALSE
    /\ trace' = <<>> /\ pushes' = 0 /\ entry_pr' = FALSE
    /\ worktree' = IF worktree = "none" THEN "none" ELSE "left_over"
    /\ git_log' = <<>> /\ cp' = NoCp /\ output' = "none"
    /\ UNCHANGED <<store, max_review_cycles, total_changes, start_labels, requeues,
                   mirror, prhist, records, timing, selection,
                   quota, signals, push_faults, gitrepo>>

\* the process is started again: main builds a new DailyCounter and the module
\* sets the flag to False
restart ==
    /\ pc = "stopped"
    /\ pc' = "poll"
    /\ daily_count' = 0 /\ daily_today' = today(now) /\ fetched' = FALSE
    /\ shutdown_requested' = FALSE /\ signal_at' = "none"
    /\ UNCHANGED <<store, max_review_cycles, task, iteration, result, queue, ssl,
                   runhist, taskhist, interrupted,
                   disk, wthist, prhist, records, timing, selection,
                   max_per_day, push_faults, stagehist, gitrepo>>

\* handle_signal: SIGTERM or SIGINT arrives, wherever the process is
handle_signal ==
    /\ pc \notin {"stopped", "exited"} /\ ~shutdown_requested
    /\ shutdown_requested' = TRUE
    /\ signal_at' = pc
    /\ UNCHANGED <<store, max_review_cycles, pc, task, iteration, result, queue, ssl,
                   runhist, taskhist, interrupted,
                   disk, wthist, prhist, records, timing, selection,
                   quota, push_faults, stagehist, gitrepo>>

\* a day passes while the loop sleeps or a run ends
midnight ==
    /\ pc \in {"sleep", "after_run"} /\ now < 24 * MaxDays
    /\ now' = now + 24
    /\ UNCHANGED <<store, max_review_cycles, pc, task, iteration, result, queue, ssl,
                   runhist, taskhist, interrupted,
                   disk, wthist, prhist, records, schedule, night_only,
                   config_schedule, git_faults, selection,
                   extra>>

human_adds_ready ==
    /\ pc = "sleep" /\ Idle
    /\ requeues < MaxRequeues
    /\ ~closed /\ "ready" \notin labels
    /\ labels' = labels \cup {"ready"}
    /\ requeues' = requeues + 1
    /\ UNCHANGED <<closed, pr_open, max_review_cycles, pc, task, iteration, result,
                   queue, ssl, runhist, total_changes, start_labels, crashes,
                   interrupted,
                   disk, wthist, prhist, records, timing, selection,
                   extra>>

----------------------------------------------------------------------------
(* The specification *)

\* the state after start-up, but for the configuration, the schedule of the
\* task and the faults of the environment
StartUp ==
    /\ labels \in StartLabelSets
    /\ start_labels = labels
    /\ closed = FALSE
    /\ pr_open = FALSE
    /\ pc = "poll"
    /\ task = NoTask
    /\ iteration = 0
    /\ result = "none"
    /\ queue = <<>>
    /\ ssl = NoSsl
    /\ via = "none"
    /\ handlers = 0
    /\ last_handler = "none"
    /\ review = NoReview
    /\ back_to_dev = 0
    /\ total_changes = 0
    /\ diag_note = "none"
    /\ requeues = 0
    /\ crashes = 0
    /\ interrupted = FALSE
    /\ worktree = "none"
    /\ mirror = FALSE
    /\ rebuilt = FALSE /\ git_failed = "none" /\ invoked = FALSE
    /\ trace = <<>> /\ pushes = 0 /\ entry_pr = FALSE
    /\ pr_calls = 0 /\ merged = FALSE
    /\ night_only = FALSE
    /\ records = <<>>
    /\ now = 0
    /\ config_schedule = DefaultSchedule
    /\ NoSelection
    /\ NewProcess
    /\ GitUnused

\* a task that runs once, any configured review-cycle limit, two tasks a day;
\* the git commands that fail are among those whose failure reaches
\* _ensure_worktree, and a push fails by running out of time
Init ==
    /\ StartUp
    /\ max_review_cycles \in 1..MaxReviewCyclesCfg
    /\ schedule = "once"
    /\ git_faults = {"worktree_prune", "worktree_add", "set_url"}
    /\ max_per_day = 2
    /\ push_faults = {"push_timeout"}

\* the steps of main's poll loop and of the run it calls
MainLoopNext ==
    \/ main_poll
    \/ sleep
    \/ run
    \/ run_triage
    \/ run_design
    \/ run_development
    \/ run_code_review
    \/ drive_terminal
    \/ drive_unknown
    \/ drive_ceiling
    \/ run_return
    \/ main_after_run
    \/ main_except
    \/ post_comment
    \/ remove_label
    \/ set_stage_label_read
    \/ set_stage_label_remove
    \/ set_stage_label_add
    \/ create_pull_request

\* the steps of the process
ProcessNext ==
    \/ MainLoopNext
    \/ merge_pull_request
    \/ close_issue
    \/ handle_human_response
    \/ handle_human_response_return
    \/ restart

Next == ProcessNext \/ crash \/ human_adds_ready

Spec == Init /\ [][Next]_vars

\* the process takes its steps as long as it runs; neither the stops of the
\* process nor the human are under any obligation
FairSpec == Spec /\ WF_vars(ProcessNext)

\* any git command of create_worktree may fail
SetupInit ==
    /\ StartUp
    /\ max_review_cycles = 1
    /\ schedule = "once"
    /\ git_faults = git_commands(FALSE, TRUE) \cup git_commands(TRUE, TRUE)
    /\ max_per_day = 2
    /\ push_faults = {"push_timeout"}

SetupSpec == SetupInit /\ [][Next]_vars

\* a recurring task
RecurInit ==
    /\ StartUp
    /\ max_review_cycles = 1
    /\ schedule \in DOMAIN intervals
    /\ git_faults = {"worktree_add"}
    /\ max_per_day = 2
    /\ push_faults = {"push_timeout"}

RecurSpec == RecurInit /\ [][Next]_vars

\* one task a day, or none; days pass
QuotaInit ==
    /\ StartUp
    /\ max_review_cycles = 1
    /\ schedule = "once"
    /\ git_faults = {"worktree_add"}
    /\ max_per_day \in 0..MaxTasksPerDay
    /\ push_faults = {"push_timeout"}

QuotaNext == Next \/ midnight

QuotaSpec == QuotaInit /\ [][QuotaNext]_vars

\* the poll loop and the signal handler; the process does not stop otherwise
ShutdownInit ==
    /\ StartUp
    /\ max_review_cycles = 1
    /\ schedule = "once"
    /\ git_faults = {"worktree_add"}
    /\ max_per_day = 2
    /\ push_faults = {"push_timeout"}

ShutdownNext == MainLoopNext \/ main_exit \/ handle_signal

\* the loop takes its steps; the signal is under no obligation to come
ShutdownSpec == ShutdownInit /\ [][ShutdownNext]_vars /\ WF_vars(MainLoopNext \/ main_exit)

\* a push can be rejected or run out of time, and so can the retry
PushInit ==
    /\ StartUp
    /\ max_review_cycles = 1
    /\ schedule = "once"
    /\ git_faults = {}
    /\ max_per_day = 2
    /\ push_faults = {"push_rejected", "push_timeout", "lease_rejected", "lease_timeout"}

PushSpec == PushInit /\ [][Next]_vars

\* a new task, any configured review-cycle limit up to MaxCeilingCycles, no
\* fault of git; the process is not stopped and nobody relabels the issue
MaxCeilingCycles == 11

CeilingInit ==
    /\ StartUp
    /\ labels = {"claude", "ready"}
    /\ max_review_cycles \in 1..MaxCeilingCycles
    /\ schedule = "once"
    /\ git_faults = {}
    /\ max_per_day = 2
    /\ push_faults = {}

CeilingNext ==
    \/ main_poll
    \/ sleep
    \/ run
    \/ run_triage
    \/ run_design
    \/ run_development
    \/ run_code_review
    \/ drive_ceiling
    \/ run_return
    \/ main_after_run
    \/ main_except
    \/ post_comment
    \/ remove_label
    \/ set_stage_label_read
    \/ set_stage_label_remove
    \/ set_stage_label_add
    \/ create_pull_request

CeilingSpec == CeilingInit /\ [][CeilingNext]_vars

----------------------------------------------------------------------------
(* WorktreeManager on its own: calls of its methods in any order against a  *)
(* remote with or without a base branch, with fetches and clones that can   *)
(* fail or run out of time                                                   *)

\* the ways a fetch or a clone can end
net_outcomes == {"ok", "rejected", "timeout"}

\* the worktree as a call finds it
snapshot(c) ==
    [path |-> IF c.kind = "none" THEN "none" ELSE worktree_path,
     kind |-> c.kind, branch |-> c.branch, head |-> c.head]

setup_repo_call ==
    /\ pc = "git"
    /\ \E net \in net_outcomes :
        LET s == setup_repo(bare, origin, net)
        IN  /\ bare' = s.bare
            /\ wm' = [NoCall EXCEPT !.op = "setup_repo", !.raised = s.raised,
                                    !.returned = IF s.raised THEN "none" ELSE repo_dir,
                                    !.seen = bare, !.prev = snapshot(checkout)]
    /\ UNCHANGED <<origin, checkout, commits, git_log, cp, output>>
    /\ UNCHANGED <<store, max_review_cycles, pc, task, iteration, result, queue, ssl,
                   runhist, taskhist, interrupted, disk, prhist, wthist, timing,
                   records, selection, quota, signals, push_faults>>

create_worktree_call ==
    /\ pc = "git"
    /\ \E net1 \in net_outcomes, net2 \in net_outcomes :
        LET r == create_worktree_git(origin, bare, checkout, net1, net2)
        IN  /\ bare' = r.bare
            /\ checkout' = r.checkout
            /\ wm' = [op |-> "create_worktree", raised |-> r.raised,
                      returned |-> r.returned, path |-> r.path,
                      base_ref |-> r.base_ref, seen |-> r.seen,
                      prev |-> snapshot(checkout),
                      follows |-> wm.op = "create_worktree" /\ ~wm.raised]
    /\ UNCHANGED <<origin, commits, git_log, cp, output>>
    /\ UNCHANGED <<store, max_review_cycles, pc, task, iteration, result, queue, ssl,
                   runhist, taskhist, interrupted, disk, prhist, wthist, timing,
                   records, selection, quota, signals, push_faults>>

\* the worker modifies files in the worktree
invoke_claude_edits ==
    /\ pc = "git"
    /\ checkout.kind /= "none" /\ ~checkout.dirty
    /\ checkout' = [checkout EXCEPT !.dirty = TRUE]
    /\ UNCHANGED <<origin, bare, wm, commits, git_log, cp, output>>
    /\ UNCHANGED <<store, max_review_cycles, pc, task, iteration, result, queue, ssl,
                   runhist, taskhist, interrupted, disk, prhist, wthist, timing,
                   records, selection, quota, signals, push_faults>>

\* commit_and_push in the worktree: the remote rejects a push that is not a
\* fast-forward and a lease that does not name its branch tip
commit_and_push_call ==
    /\ pc = "git"
    /\ checkout.kind /= "none"
    /\ commits < MaxCommits
    /\ \E p \in push_outcomes, l \in lease_outcomes :
        LET new == Append(checkout.head, commits + 1)
            push == IF push_accepts(origin.task, new) THEN p ELSE "rejected"
            lease == IF lease_accepts(origin.task, tracking_ref(bare, checkout))
                     THEN l ELSE "rejected"
            r == commit_and_push(checkout.dirty, push, lease)
            landed == r.returned = "true"
            linked == checkout.kind = "linked"
        IN  /\ checkout' =
                IF ~r.committed THEN checkout
                ELSE [checkout EXCEPT
                        !.head = new, !.dirty = FALSE,
                        !.remotes.task = IF landed /\ ~linked THEN new ELSE @]
            /\ bare' =
                IF ~r.committed \/ ~linked THEN bare
                ELSE [bare EXCEPT
                        !.heads.task = new,
                        !.remotes.task = IF landed /\ bare.refspec THEN new ELSE @]
            /\ origin' = IF landed THEN [origin EXCEPT !.task = new] ELSE origin
            /\ commits' = IF r.committed THEN commits + 1 ELSE commits
            /\ git_log' = r.log
            /\ cp' = [called |-> TRUE, dirty |-> checkout.dirty, returned |-> r.returned]
            /\ wm' = [NoCall EXCEPT !.op = "commit_and_push",
                                    !.raised = r.returned = "raised",
                                    !.returned = r.returned,
                                    !.seen = bare, !.prev = snapshot(checkout)]
    /\ UNCHANGED output
    /\ UNCHANGED <<store, max_review_cycles, pc, task, iteration, result, queue, ssl,
                   runhist, taskhist, interrupted, disk, prhist, wthist, timing,
                   records, selection, quota, signals, push_faults>>

cleanup_all_call ==
    /\ pc = "git"
    /\ wm.op /= "cleanup_all"
    /\ checkout' = NoCheckout
    /\ bare' = IF bare.exists THEN pruned(bare) ELSE bare
    /\ wm' = [NoCall EXCEPT !.op = "cleanup_all", !.seen = bare,
                            !.prev = snapshot(checkout)]
    /\ UNCHANGED <<origin, commits, git_log, cp, output>>
    /\ UNCHANGED <<store, max_review_cycles, pc, task, iteration, result, queue, ssl,
                   runhist, taskhist, interrupted, disk, prhist, wthist, timing,
                   records, selection, quota, signals, push_faults>>

\* no mirror and no worktree yet; the remote has the base branch or no branch
GitInit ==
    /\ pc = "git"
    /\ \E b \in {NoCommit, <<1>>} : origin = [NoRefs EXCEPT !.base = b]
    /\ commits = 1
    /\ bare = NoBare /\ checkout = NoCheckout /\ wm = NoCall
    /\ labels = {} /\ start_labels = {} /\ task = NoTask /\ queue = <<>>
    /\ closed = FALSE /\ pr_open = FALSE /\ max_review_cycles = 1
    /\ iteration = 0 /\ result = "none" /\ ssl = NoSsl
    /\ via = "none" /\ handlers = 0 /\ last_handler = "none"
    /\ review = NoReview /\ back_to_dev = 0 /\ total_changes = 0
    /\ diag_note = "none" /\ requeues = 0 /\ crashes = 0 /\ interrupted = FALSE
    /\ worktree = "none" /\ mirror = FALSE /\ git_faults = {}
    /\ rebuilt = FALSE /\ git_failed = "none" /\ invoked = FALSE
    /\ trace = <<>> /\ pushes = 0 /\ entry_pr = FALSE /\ pr_calls = 0
    /\ merged = FALSE
    /\ schedule = "once" /\ night_only = FALSE /\ records = <<>> /\ now = 0
    /\ config_schedule = DefaultSchedule
    /\ NoSelection
    /\ max_per_day = default_max_tasks_per_day /\ push_faults = {}
    /\ NewProcess

GitNext ==
    \/ setup_repo_call
    \/ create_worktree_call
    \/ invoke_claude_edits
    \/ commit_and_push_call
    \/ cleanup_all_call

GitSpec == GitInit /\ [][GitNext]_vars

----------------------------------------------------------------------------
(* set_stage_label on its own: called twice with the same stage on an issue *)
(* with any labels                                                           *)

MaxStartStageLabels == 3

LabelInit ==
    /\ \E st \in SUBSET stage_labels, ns \in SUBSET non_stage_labels :
        /\ Cardinality(st) <= MaxStartStageLabels
        /\ labels = st \cup ns
    /\ start_labels = labels
    /\ \E s \in stage_labels :
        /\ task = [NoTask EXCEPT !.current_stage = s]
        /\ queue = <<Op("set_stage", s), Op("set_stage", s)>>
    /\ pc = "label_call"
    /\ closed = FALSE /\ pr_open = FALSE /\ max_review_cycles = 1
    /\ iteration = 0 /\ result = "none" /\ ssl = NoSsl
    /\ via = "none" /\ handlers = 0 /\ last_handler = "none"
    /\ review = NoReview /\ back_to_dev = 0 /\ total_changes = 0
    /\ diag_note = "none" /\ requeues = 0 /\ crashes = 0 /\ interrupted = FALSE
    /\ worktree = "none" /\ mirror = FALSE /\ git_faults = {}
    /\ rebuilt = FALSE /\ git_failed = "none" /\ invoked = FALSE
    /\ trace = <<>> /\ pushes = 0 /\ entry_pr = FALSE /\ pr_calls = 0
    /\ merged = FALSE
    /\ schedule = "once" /\ night_only = FALSE /\ records = <<>> /\ now = 0
    /\ config_schedule = DefaultSchedule
    /\ NoSelection
    /\ max_per_day = default_max_tasks_per_day /\ push_faults = {}
    /\ NewProcess
    /\ GitUnused

LabelNext ==
    \/ set_stage_label_read
    \/ set_stage_label_remove
    \/ set_stage_label_add

LabelSpec == LabelInit /\ [][LabelNext]_vars

----------------------------------------------------------------------------
(* select_task and the RecurringTracker on their own: the clock runs, runs of *)
(* recurring issues are recorded, and is_due and select_task are called       *)

MaxIssues == 2
MaxRecordAt == 0
MaxSlack == 2

\* the issues get_ready_issues may return, numbered in the order of the list
IssueLists(schedules, priorities) ==
    UNION { [1..n -> [night_only : BOOLEAN, schedule : schedules,
                      priority : priorities]] : n \in 0..MaxIssues }

numbered(attrs) ==
    [i \in 1..Len(attrs) |->
        [number |-> i, night_only |-> attrs[i].night_only,
         schedule |-> attrs[i].schedule, priority |-> attrs[i].priority]]

\* the clock stops MaxSlack hours after the longest interval of the issues at
\* hand has passed since the last hour at which a run may be recorded
horizon ==
    LET spans == {24} \cup {intervals[issues[i].schedule] :
                        i \in {j \in 1..Len(issues) : issues[j].schedule /= "once"}}
    IN  (CHOOSE m \in spans : \A x \in spans : x <= m) + MaxRecordAt + MaxSlack

\* everything but the issues, the configuration and the records
SelectStartUp ==
    /\ pc = "select"
    /\ now = 0
    /\ selected = [called |-> FALSE, issue |-> NoIssue]
    /\ candidates = <<>>
    /\ due = NoDue
    /\ elapsed = [i \in 1..Len(issues) |-> -1]
    /\ labels = {"claude", "ready"} /\ start_labels = labels
    /\ closed = FALSE /\ pr_open = FALSE /\ max_review_cycles = 1
    /\ task = NoTask /\ iteration = 0 /\ result = "none"
    /\ queue = <<>> /\ ssl = NoSsl
    /\ via = "none" /\ handlers = 0 /\ last_handler = "none"
    /\ review = NoReview /\ back_to_dev = 0 /\ total_changes = 0
    /\ diag_note = "none" /\ requeues = 0 /\ crashes = 0 /\ interrupted = FALSE
    /\ worktree = "none" /\ mirror = FALSE /\ git_faults = {}
    /\ rebuilt = FALSE /\ git_failed = "none" /\ invoked = FALSE
    /\ trace = <<>> /\ pushes = 0 /\ entry_pr = FALSE /\ pr_calls = 0
    /\ merged = FALSE
    /\ schedule = "once" /\ night_only = FALSE
    /\ max_per_day = default_max_tasks_per_day /\ push_faults = {}
    /\ NewProcess
    /\ GitUnused

\* main: select_task(issues, config, recurring_tracker)
select_task_call ==
    /\ pc = "select"
    /\ selected' = [called |-> TRUE,
                    issue |-> select_task(issues, config_schedule, records, now)]
    /\ candidates' = select_candidates(issues, config_schedule, records, now)
    /\ due' = NoDue
    /\ UNCHANGED <<store, max_review_cycles, pc, task, iteration, result, queue, ssl,
                   runhist, taskhist, interrupted, disk, wthist, prhist, records,
                   timing, issues, elapsed,
                   extra>>

\* recurring.is_due(issue_number, schedule)
is_due_call ==
    /\ pc = "select"
    /\ \E i \in 1..Len(issues) :
        due' = [called |-> TRUE, number |-> i, schedule |-> issues[i].schedule,
                result |-> is_due(records, i, issues[i].schedule, now)]
    /\ selected' = [called |-> FALSE, issue |-> NoIssue]
    /\ candidates' = <<>>
    /\ UNCHANGED <<store, max_review_cycles, pc, task, iteration, result, queue, ssl,
                   runhist, taskhist, interrupted, disk, wthist, prhist, records,
                   timing, issues, elapsed,
                   extra>>

\* recurring.record_run(issue_number, schedule), for a recurring issue
record_run_call ==
    /\ pc = "select" /\ now <= MaxRecordAt
    /\ \E i \in 1..Len(issues) :
        /\ issues[i].schedule /= "once"
        /\ records' = record_run(records, i, issues[i].schedule, now)
        /\ elapsed' = [elapsed EXCEPT ![i] = 0]
    /\ selected' = [called |-> FALSE, issue |-> NoIssue]
    /\ candidates' = <<>>
    /\ due' = NoDue
    /\ UNCHANGED <<store, max_review_cycles, pc, task, iteration, result, queue, ssl,
                   runhist, taskhist, interrupted, disk, wthist, prhist,
                   timing, issues,
                   extra>>

\* an hour passes
tick ==
    /\ pc = "select" /\ now < horizon
    /\ now' = now + 1
    /\ elapsed' = [i \in DOMAIN elapsed |->
                      IF elapsed[i] < 0 THEN elapsed[i] ELSE elapsed[i] + 1]
    /\ selected' = [called |-> FALSE, issue |-> NoIssue]
    /\ candidates' = <<>>
    /\ due' = NoDue
    /\ UNCHANGED <<store, max_review_cycles, pc, task, iteration, result, queue, ssl,
                   runhist, taskhist, interrupted, disk, wthist, prhist, records,
                   schedule, night_only, config_schedule, git_faults, issues,
                   extra>>

SelectNext ==
    \/ select_task_call
    \/ is_due_call
    \/ record_run_call
    \/ tick

\* lists of issues that run once or daily, no run recorded; UTC, or an hour
\* behind UTC
SelectInit ==
    /\ issues \in {numbered(a) : a \in IssueLists({"once", "daily"}, {"high", "low"})}
    /\ config_schedule \in {DefaultSchedule, [DefaultSchedule EXCEPT !.timezone = 23]}
    /\ records = <<>>
    /\ SelectStartUp

SelectSpec == SelectInit /\ [][SelectNext]_vars

\* one recurring issue; no record, or a record that lacks last_run
DueInit ==
    /\ issues \in {numbered(a) : a \in [1..1 -> [night_only : {FALSE},
                                                 schedule : DOMAIN intervals,
                                                 priority : {"medium"}]]}
    /\ config_schedule = DefaultSchedule
    /\ records \in {<<>>, <<[schedule |-> issues[1].schedule, last_run |-> <<>>]>>}
    /\ SelectStartUp

DueSpec == DueInit /\ [][SelectNext]_vars

\* the calls at one hour: no time passes between them
PriorityNext ==
    \/ select_task_call
    \/ is_due_call
    \/ record_run_call

\* lists of issues of every priority the front matter may name, one outside
\* PRIORITY_ORDER included; the hour is outside the night window (UTC) or
\* inside it (three hours ahead of UTC)
PriorityInit ==
    /\ issues \in {numbered(a) : a \in IssueLists({"once", "daily"},
                                                  {"high", "medium", "low", "urgent"})}
    /\ config_schedule \in {DefaultSchedule, [DefaultSchedule EXCEPT !.timezone = 3]}
    /\ records = <<>>
    /\ SelectStartUp

PrioritySpec == PriorityInit /\ [][PriorityNext]_vars

----------------------------------------------------------------------------
(* Properties *)

RunEnded == pc = "returned" /\ Idle

OneStageAtStart == Cardinality(StageLabelsOn(start_labels)) = 1

\* C1: one call of _drive invokes at most 20 stage handlers; when 20 have run
\* and none ended the run, _drive takes the ceiling path: it returns "failed",
\* and once its calls are made the 'exceeded maximum iterations' note is
\* posted and the stage label is failed.
C1_DriveCeiling ==
    /\ handlers <= 20
    /\ (pc = "drive" /\ Idle /\ handlers = 20) => ENABLED drive_ceiling
    /\ via = "ceiling" => (pc = "returned" /\ result = "failed" /\ handlers = 20)
    /\ (via = "ceiling" /\ RunEnded) =>
            (diag_note = "ceiling" /\ StageLabelsOn(labels) = {"failed"})

C1_Witness ==
    via = "ceiling" /\ RunEnded /\ handlers = 20 /\ "failed" \in labels

\* C2: whenever a run ends with the outcome failed, the issue carries the
\* failed label when run returns.
C2_FailedOutcomeHasFailedLabel ==
    (RunEnded /\ result = "failed") => "failed" \in labels

\* C3: if the process stops while the stage label is design, development or
\* code-review, then after the restart the task is eventually run again and
\* the first handler of that run is the handler of that label.
C3_ResumedAfterRestart ==
    \A s \in {"design", "development", "code-review"} :
        [](  (pc = "stopped" /\ ~closed /\ "claude" \in labels
                /\ StageLabelsOn(labels) = {s})
          => <>(handlers = 1 /\ last_handler = s))

\* C4: when the review-cycle counter is max_review_cycles - 1 and the review
\* yields 'changes required', the run ends there as an escalation: outcome
\* blocked, the Task awaiting-human, the label awaiting-human once the calls are
\* made, and code-review is the last handler of the run.
C4_EscalatesAtLimit ==
    (review.verdict = "changes_required" /\ review.before = max_review_cycles - 1)
        => /\ pc = "returned" /\ result = "blocked" /\ via = "escalated"
           /\ last_handler = "code-review"
           /\ task.current_stage = "awaiting-human"
           /\ Idle => StageLabelsOn(labels) = {"awaiting-human"}

C4_Witness ==
    /\ RunEnded /\ review.verdict = "changes_required"
    /\ max_review_cycles >= 2 /\ review.before = max_review_cycles - 1
    /\ "awaiting-human" \in labels

\* C5: in one run the task goes from code-review back to development at most
\* max_review_cycles - 1 times.
C5_ReworkBoundedByReviewCycles == back_to_dev <= max_review_cycles - 1

\* C6: the review-cycle counter is per task: the review that gives the task
\* its max_review_cycles-th 'changes required' verdict, counted over all runs,
\* escalates it.
C6_CounterSurvivesRuns ==
    (review.verdict = "changes_required" /\ total_changes >= max_review_cycles)
        => via = "escalated"

\* C7: an issue that starts with at most one stage label carries at most one
\* stage label at every point between two collaborator calls, whatever the
\* driver and the personas do (no human relabelling).
C7_AtMostOneStageLabel ==
    (Cardinality(StageLabelsOn(start_labels)) <= 1 /\ requeues = 0)
        => Cardinality(StageLabelsOn(labels)) <= 1

C7_Witness ==
    /\ Cardinality(StageLabelsOn(start_labels)) <= 1 /\ requeues = 0
    /\ crashes = 1 /\ closed /\ labels = {"claude", "done"}

\* C8 as stated: an open task that starts with exactly one stage label carries
\* exactly one stage label at every observation point, the points between the
\* label calls of one transition included.
C8_ExactlyOneAtEveryPoint ==
    (OneStageAtStart /\ requeues = 0 /\ ~closed)
        => Cardinality(StageLabelsOn(labels)) = 1

\* C8 as amended: such a task carries exactly one stage label at every point
\* except between the label calls of one transition (inside set_stage_label,
\* or between remove_label('ready') and set_stage_label('triage') in run), or
\* after the process stopped there; at those points it carries one or none.
C8_ExactlyOneOutsideTransitions ==
    (OneStageAtStart /\ requeues = 0 /\ ~closed)
        => \/ Cardinality(StageLabelsOn(labels)) = 1
           \/ /\ StageLabelsOn(labels) = {}
              /\ in_label_transition \/ interrupted

C8_Witness ==
    /\ OneStageAtStart /\ requeues = 0 /\ ~closed
    /\ StageLabelsOn(labels) = {} /\ ssl.active /\ ssl.new = "code-review"

\* C9: when set_stage_label(s) has completed, the stage labels on the issue
\* are exactly {s} and the other labels are those the issue had before; a
\* second call with the same s writes nothing (the labels stay that set at
\* every point of the second call and after it).
C9_SetStageLabelFrame ==
    (pc = "label_call" /\ Len(queue) <= 1)
        => labels = (start_labels \ stage_labels) \cup {task.current_stage}

C9_Witness ==
    /\ pc = "label_call" /\ queue = <<>>
    /\ Cardinality(StageLabelsOn(start_labels)) >= 2
    /\ task.current_stage \notin start_labels
    /\ "claude" \in labels

\* C10: on every path named by the claim (persona fail, escalation, iteration
\* ceiling, worktree setup failure, missing change request at review, unhandled
\* exception, failed change-request creation) a run that returns failed or
\* blocked has posted a failure or escalation note.
C10_OutcomeHasNote ==
    (RunEnded /\ result \in {"failed", "blocked"}
        /\ via \in {"handler", "clarification", "approved", "escalated", "ceiling",
                    "setup", "no_pr", "exception", "pr_failed"})
        => diag_note /= "none"

\* C11 (as stated): whenever a git command fails while _ensure_worktree builds the
\* worktree for design or development, the worker is not invoked, the setup note
\* is posted, the label becomes failed and the run ends as failed with no
\* further handler
C11_AnyGitFailureAborts ==
    (last_handler \in {"design", "development"} /\ git_failed /= "none")
        => /\ ~invoked
           /\ pc = "returned" /\ result = "failed" /\ via = "setup"
           /\ Idle => (diag_note = "setup" /\ StageLabelsOn(labels) = {"failed"})

\* C11 (amended): the same for the git commands whose failure is not caught on
\* the way: worktree add, remote set-url and the worktree prune of remove_worktree
C11_UncaughtGitFailureAborts ==
    (last_handler \in {"design", "development"}
        /\ git_failed \in {"worktree_add", "set_url", "worktree_prune"})
        => /\ ~invoked
           /\ pc = "returned" /\ result = "failed" /\ via = "setup"
           /\ trace[Len(trace)] = last_handler
           /\ Idle => (diag_note = "setup" /\ StageLabelsOn(labels) = {"failed"})

C11_Witness ==
    /\ RunEnded /\ last_handler = "development" /\ git_failed = "worktree_add"
    /\ diag_note = "setup" /\ "failed" \in labels /\ result = "failed"

\* C12: when run has returned, or has raised out of its finally clause, no
\* worktree directory remains, whatever the outcome of the run
C12_NoWorktreeAfterRun ==
    pc \in {"after_run", "run_raised"} => worktree = "none"

C12_Witness ==
    /\ pc = "after_run" /\ result = "blocked" /\ worktree = "none"
    /\ trace = <<"triage", "design", "development", "code-review">>

\* C13: no run starts while a worktree left by an earlier run or by an earlier
\* process is on the disk
C13_NoLeftOverAtRunStart ==
    (pc = "drive" /\ trace = <<>>) => worktree = "none"

\* C14: in one run no worktree exists before the first design or development
\* stage, and a worktree built in the run is never removed and built again
C14_WorktreeBuiltOnceAndReused ==
    /\ (pc = "drive" /\ \A i \in 1..Len(trace) : trace[i] = "triage")
            => worktree /= "this_run"
    /\ ~rebuilt

\* C15: create_pull_request is called only if no change request exists yet for
\* the task, so that it is called at most once after one was opened, over all
\* development passes of all runs
C15_NoCallWhileChangeRequestOpen ==
    (queue /= <<>> /\ Head(queue).op = "create_pr") => ~pr_open

\* C16: a new task whose stages all succeed at the first attempt: one run
\* invokes triage, design, development and code-review once each in that order,
\* pushes changes once, opens one change request, leaves awaiting-human and
\* returns blocked
C16_ScenarioA ==
    (/\ RunEnded
     /\ StageLabelsOn(start_labels) = {"ready"} /\ requeues = 0 /\ crashes = 0
     /\ ~entry_pr
     /\ review.verdict = "approved" /\ back_to_dev = 0)
        => /\ trace = <<"triage", "design", "development", "code-review">>
           /\ pushes = 1
           /\ pr_calls = 1 /\ pr_open
           /\ StageLabelsOn(labels) = {"awaiting-human"}
           /\ result = "blocked"

C16_Witness ==
    /\ RunEnded /\ start_labels = {"claude", "ready"} /\ requeues = 0 /\ crashes = 0
    /\ ~entry_pr /\ review.verdict = "approved" /\ back_to_dev = 0
    /\ pushes = 1 /\ pr_calls = 1 /\ "awaiting-human" \in labels

\* C17: once a recurring task is done - the driver returned done and run has
\* returned, or a human approved it, its change request was merged and the issue
\* was closed - a recurrence record written at the current time exists for it,
\* and is_due is false
C17_DoneIsRecorded ==
    (/\ schedule /= "once" /\ "done" \in labels
     /\ \/ pc = "after_run" /\ result = "done"
        \/ merged /\ closed)
        => /\ this_issue.number \in DOMAIN records
           /\ records[this_issue.number].last_run = isoformat(now)
           /\ ~is_due(records, this_issue.number, schedule, now)

\* the hours since the last record_run of issue i are at least its interval, or
\* no run of it was recorded
DueByElapsed(i) ==
    \/ elapsed[i] < 0
    \/ issues[i].schedule = "daily" /\ elapsed[i] >= 24
    \/ issues[i].schedule = "weekly" /\ elapsed[i] >= 7 * 24
    \/ issues[i].schedule = "monthly" /\ elapsed[i] >= 30 * 24

\* the local hour lies in the night window
InsideWindow ==
    LET h == (now + config_schedule.timezone) % 24
    IN  config_schedule.night_window_start <= h /\ h < config_schedule.night_window_end

Kept(i) == \E k \in 1..Len(candidates) : candidates[k] = issues[i]

\* C18: is_due is true exactly when no run is recorded for the issue (or the
\* record has no last_run) or at least the interval of its schedule - 1, 7 or
\* 30 days - has passed since the recorded run
C18_IsDueIffIntervalElapsed ==
    due.called => (due.result <=> DueByElapsed(due.number))

C18_Witness ==
    /\ due.called /\ due.result /\ due.schedule = "daily"
    /\ 1 \in DOMAIN records /\ elapsed[1] = 24

\* C19: select_task returns a night-only issue only when the local hour is in
\* the night window, keeps no night-only issue as a candidate outside it, and
\* inside it keeps every night-only issue that passes the recurrence filter
C19_NightOnlyFilter ==
    selected.called =>
        /\ selected.issue.night_only => InsideWindow
        /\ \A i \in 1..Len(issues) :
            issues[i].night_only =>
                /\ ~InsideWindow => ~Kept(i)
                /\ (InsideWindow /\ (issues[i].schedule = "once" \/ DueByElapsed(i)))
                        => Kept(i)

C19_Witness ==
    /\ selected.called /\ selected.issue.night_only
    /\ config_schedule.timezone = 23 /\ now % 24 = 3

\* C20: select_task returns a recurring issue only when it is due, and keeps
\* every recurring issue that is due or has no record, unless the night-only
\* filter drops it
C20_RecurrenceFilter ==
    selected.called =>
        /\ selected.issue.schedule /= "once" => DueByElapsed(selected.issue.number)
        /\ \A i \in 1..Len(issues) :
            issues[i].schedule /= "once" =>
                /\ ~DueByElapsed(i) => ~Kept(i)
                /\ (DueByElapsed(i) /\ (issues[i].night_only => InsideWindow))
                        => Kept(i)

C20_Witness ==
    /\ selected.called /\ selected.issue.schedule = "daily"
    /\ selected.issue.number \in DOMAIN records
    /\ elapsed[selected.issue.number] = 24

\* the issues of the input that pass the night-only and the recurrence filter
Passing ==
    {i \in 1..Len(issues) :
        /\ issues[i].night_only => InsideWindow
        /\ issues[i].schedule /= "once" => DueByElapsed(i)}

\* the place of a priority in the order high < medium < low
RankInOrder(p) == CASE p = "high" -> 0 [] p = "medium" -> 1 [] p = "low" -> 2

\* C21: when every issue that passes the two filters has one of the priorities
\* high, medium, low, select_task returns the passing issue of the lowest rank
\* in the order high < medium < low, among those of that rank the one that comes
\* first in the input list; it returns none exactly when no issue passes
C21_LowestRankThenFirst ==
    (selected.called
        /\ \A i \in Passing : issues[i].priority \in {"high", "medium", "low"})
        => /\ selected.issue = NoIssue <=> Passing = {}
           /\ Passing /= {} =>
                \E i \in Passing :
                    /\ selected.issue = issues[i]
                    /\ \A j \in Passing :
                        \/ RankInOrder(issues[i].priority) < RankInOrder(issues[j].priority)
                        \/ /\ RankInOrder(issues[i].priority) = RankInOrder(issues[j].priority)
                           /\ i <= j

C21_Witness ==
    /\ selected.called /\ Len(issues) = 2 /\ Passing = {1, 2}
    /\ issues[1].priority = "high" /\ issues[2].priority = "high"
    /\ selected.issue.number = 1

\* the counter is of the current date and has reached the limit
QuotaReached == daily_today = today(now) /\ daily_count >= max_per_day

\* the daily quota as one process keeps it: the restart of the process apart,
\* the counter goes back to 0 only on a new date
DailyQuotaOfOneProcess ==
    /\ [](daily_count <= max_per_day)
    /\ [][(pc = "poll" /\ QuotaReached)
            => (pc' /= "selected" /\ (pc' = "sleep" => ~fetched'))]_vars
    /\ [][(daily_count > 0 /\ daily_count' = 0 /\ pc /= "stopped")
            => today(now') > daily_today]_vars

\* C22: the daily counter never exceeds max_tasks_per_day; a poll cycle that
\* finds the counter at the limit for the current date fetches no issue and
\* starts no run; and the counter goes back to 0 only when the date has advanced
C22_DailyQuota ==
    /\ [](daily_count <= max_per_day)
    /\ [][(pc = "poll" /\ QuotaReached)
            => (pc' /= "selected" /\ (pc' = "sleep" => ~fetched'))]_vars
    /\ [][(daily_count > 0 /\ daily_count' = 0) => today(now') > daily_today]_vars

\* a run is in progress: run has been called and has not returned or raised
RunInProgress == pc \in {"selected", "drive", "returned"}

LogAt(c) == {i \in 1..Len(git_log) : git_log[i].cmd = c}

\* the pushes of the last commit_and_push call, of any kind
Pushes == {i \in 1..Len(git_log) :
              git_log[i].cmd \in {"push", "push_force", "push_force_with_lease"}}

\* C23: commit_and_push in a worktree where staging finds nothing to commit
\* returns false and runs neither a commit nor a push; when it returns true a
\* commit was made and after it a push of the branch succeeded
C23_NoChangesNoCommit ==
    cp.called =>
        /\ ~cp.dirty => (cp.returned = "false" /\ LogAt("commit") = {} /\ Pushes = {})
        /\ cp.returned = "true" =>
                \E i \in LogAt("commit"), j \in Pushes :
                    i < j /\ git_log[i].exit = "ok" /\ git_log[j].exit = "ok"

C23_Witness ==
    /\ cp.called /\ ~cp.dirty /\ cp.returned = "false"
    /\ last_handler = "development" /\ git_log = <<Cmd("add", "ok"), Cmd("status", "ok")>>

\* C24: when the normal push is rejected, commit_and_push runs exactly one more
\* push, with --force-with-lease and never a plain --force; when that one fails
\* too, commit_and_push raises, the run ends as failed and, once the calls of
\* run's except clause are made, the label is failed
C24_OneLeaseRetry ==
    (cp.called /\ \E i \in LogAt("push") : git_log[i].exit = "rejected") =>
        /\ Cardinality(LogAt("push")) = 1
        /\ Cardinality(LogAt("push_force_with_lease")) = 1
        /\ LogAt("push_force") = {}
        /\ \A i \in LogAt("push"), j \in LogAt("push_force_with_lease") : i < j
        /\ git_log[Len(git_log)].exit /= "ok" =>
            /\ cp.returned = "raised"
            /\ result = "failed"
            /\ pc \in {"returned", "after_run", "run_raised"}
            /\ pc = "returned" => via = "exception"
            /\ (pc = "returned" => Idle) => StageLabelsOn(labels) = {"failed"}

C24_Witness ==
    /\ cp.called /\ cp.returned = "raised" /\ RunEnded
    /\ git_log[Len(git_log) - 1] = Cmd("push", "rejected")
    /\ git_log[Len(git_log)] = Cmd("push_force_with_lease", "rejected")
    /\ StageLabelsOn(labels) = {"failed"} /\ diag_note /= "none"

\* C29: after a stage handler got a worker output that carries neither verdict
\* marker, the run goes on (the handler neither failed nor blocked the task):
\* from triage the task is at design, from code-review back at development,
\* and the label says so once the calls are made
C29_AmbiguousOutputMovesOn ==
    (output = "ambiguous" /\ via /= "ceiling" /\ pc \notin {"after_run", "run_raised"})
        => /\ pc = "drive" /\ result = "continue"
           /\ last_handler \in {"triage", "code-review"}
           /\ last_handler = "triage" =>
                /\ task.current_stage = "design"
                /\ Idle => StageLabelsOn(labels) = {"design"}
           /\ last_handler = "code-review" =>
                /\ task.current_stage = "development"
                /\ Idle => StageLabelsOn(labels) = {"development"}

C29_Witness ==
    /\ output = "ambiguous" /\ last_handler = "code-review" /\ pc = "drive" /\ Idle
    /\ task.current_stage = "development" /\ "development" \in labels
    /\ review.verdict = "ambiguous"

\* a create_worktree call that directly follows one that returned
InSuccession == wm.op = "create_worktree" /\ wm.follows

\* C25 as stated: the second of two create_worktree calls in succession returns
\* the same path with the same branch at the same commit, and the mirror has a
\* branch of that name
C25_Idempotent ==
    (InSuccession /\ ~wm.raised)
        => /\ wm.returned = wm.prev.path
           /\ checkout.branch = wm.prev.branch
           /\ checkout.head = wm.prev.head
           /\ bare.heads.task /= NoCommit

\* C25: the second of two create_worktree calls in succession fails only when
\* a fetch ran out of time; it returns the same path with the same branch; after
\* a first call that built a linked worktree it attaches to the branch at the
\* same commit, the one branch of that name in the mirror; after a first call
\* that took the empty-repository path, a second call that takes it again makes
\* a fresh repository with the branch unborn and no branch in the mirror
C25_IdempotentPerPath ==
    InSuccession
        => /\ wm.raised => ~wm.seen.exists
           /\ ~wm.raised =>
                /\ wm.returned = wm.prev.path
                /\ checkout.branch = wm.prev.branch
                /\ wm.prev.kind = "linked" =>
                     /\ wm.path = "attach" /\ checkout.kind = "linked"
                     /\ checkout.head = wm.prev.head
                     /\ bare.heads.task = checkout.head
                /\ (wm.prev.kind = "standalone" /\ wm.path = "empty") =>
                     /\ checkout.kind = "standalone"
                     /\ checkout.head = NoCommit /\ wm.prev.head = NoCommit
                     /\ bare.heads.task = wm.seen.heads.task

C25_Witness ==
    /\ InSuccession /\ ~wm.raised
    /\ wm.prev.kind = "linked" /\ wm.path = "attach"
    /\ checkout.head = wm.prev.head /\ checkout.head /= NoCommit

\* C26: when the base resolves in the mirror, create_worktree attaches to the
\* task branch if the mirror has it, at the commit the branch is at, and
\* otherwise creates it at the commit of the first of origin/<base> and <base>
\* that resolves
C26_AttachOrCreateFromBase ==
    (wm.op = "create_worktree" /\ wm.seen.exists /\ resolve_base(wm.seen) /= "none")
        => /\ ~wm.raised
           /\ checkout.kind = "linked" /\ checkout.branch = "task"
           /\ wm.seen.heads.task /= NoCommit =>
                /\ wm.path = "attach"
                /\ checkout.head = wm.seen.heads.task
                /\ bare.heads.task = wm.seen.heads.task
           /\ wm.seen.heads.task = NoCommit =>
                /\ wm.path = "create"
                /\ wm.base_ref = (IF wm.seen.remotes.base /= NoCommit
                                  THEN "origin/base" ELSE "base")
                /\ checkout.head = base_commit(wm.seen, wm.base_ref)
                /\ bare.heads.task = checkout.head

C26_Witness ==
    /\ wm.op = "create_worktree" /\ wm.path = "attach"
    /\ wm.prev.kind = "none"
    /\ Len(checkout.head) >= 2 /\ checkout.head = wm.seen.heads.task

\* C27 as stated: the empty-repository path is taken exactly when neither form
\* of the base resolves, it builds a fresh repository with the branch unborn,
\* and a commit_and_push of modifications in it returns True
C27_EmptyPathPushSucceeds ==
    /\ (wm.op = "create_worktree" /\ ~wm.raised) =>
        /\ wm.path = "empty" <=> resolve_base(wm.seen) = "none"
        /\ wm.path = "empty" =>
            /\ checkout.kind = "standalone" /\ checkout.head = NoCommit
            /\ wm.base_ref = "none"
    /\ (wm.op = "commit_and_push" /\ wm.prev.kind = "standalone" /\ cp.dirty) =>
        wm.returned = "true"

\* C28 as stated: setup_repo returns the mirror path, and the mirror exists,
\* however the fetch or the clone ends
C28_SetupRepoNeverFails ==
    wm.op = "setup_repo" =>
        /\ ~wm.raised
        /\ wm.returned = repo_dir
        /\ bare.exists

\* C31: when _drive returned blocked and the calls are made, the issue carries
\* awaiting-human and not failed, the value run returns for the outcome is
\* False, and from there to the next poll the daily counter does not change
C31_BlockedIsNotFailure ==
    /\ []((RunEnded /\ result = "blocked")
            => /\ "awaiting-human" \in labels
               /\ "failed" \notin labels
               /\ ~run_returns(result))
    /\ [][(result = "blocked" /\ pc \in {"returned", "after_run", "run_raised"})
            => (daily_count' = daily_count /\ daily_today' = daily_today)]_vars

C31_Witness ==
    /\ pc = "poll" /\ fetched /\ daily_count = 0 /\ result = "none"
    /\ "awaiting-human" \in labels /\ "ready" \notin labels
    /\ total_changes = 1 /\ crashes = 0 /\ requeues = 0

\* C32 as stated: when handle_human_response has dealt with a comment that asks
\* for changes (the branch that calls set_stage_label with ready), the labels it
\* leaves make the next run of the task start at the development stage
C32_ChangesResumeAtDevelopment ==
    [][(pc = "human" /\ pc' = "human" /\ ssl.active /\ ssl.new = "ready"
            /\ ~ssl'.active)
        => stage_from_labels(labels') = "development"]_vars

\* the stage labels that may replace a stage label in the pipeline
pipeline_next(s) ==
    CASE s = "triage" -> {"design", "awaiting-human", "failed"}
      [] s = "design" -> {"development", "failed"}
      [] s = "development" -> {"code-review", "failed"}
      [] s = "code-review" -> {"development", "awaiting-human", "failed"}
      [] OTHER -> {}

\* C33: every set_stage_label call made during a run replaces the stage label
\* on the issue by one that follows it in the pipeline (triage when the issue
\* carries ready only) or leaves it as it is; done, failed and awaiting-human
\* are never replaced
C33_LabelFollowsPipeline ==
    [][(pc \in {"drive", "returned"} /\ pc' = pc /\ ~ssl.active /\ ssl'.active)
        => LET old == StageLabelsOn(labels) \ {"ready"}
           IN  /\ old = {} => ssl'.new = "triage"
               /\ \A o \in old : o = ssl'.new \/ ssl'.new \in pipeline_next(o)]_vars

C33_Witness ==
    /\ pc = "drive" /\ Idle /\ last_handler = "code-review"
    /\ review.verdict = "changes_required"
    /\ StageLabelsOn(labels) = {"development"}
    /\ trace = <<"triage", "design", "development", "code-review">>

\* C34: once a stage handler has returned failed, no stage handler is called
\* and no worker is invoked until the run is over
C34_NoHandlerAfterFailure ==
    [][result = "failed"
        => /\ handlers' <= handlers
           /\ Len(trace') <= Len(trace)
           /\ invoked' => invoked]_vars

C34_Witness ==
    /\ RunEnded /\ result = "failed" /\ via = "setup"
    /\ handlers = 2 /\ ~invoked /\ git_failed = "worktree_add"
    /\ "failed" \in labels

\* C35: _drive returns done only for an issue that carries the done label, as
\* it did when the run was entered, and then without calling a handler; a run
\* is recorded only for such an outcome
C35_NoHandlerYieldsDone ==
    /\ [](result = "done" =>
            /\ "done" \in labels
            /\ pc = "returned" => (handlers = 0 /\ via = "terminal" /\ trace = <<>>))
    /\ [][records' /= records => (result = "done" /\ "done" \in labels)]_vars

C35_Witness ==
    /\ RunEnded /\ result = "blocked" /\ via = "approved"
    /\ "done" \notin labels /\ schedule /= "once" /\ records = <<>>
    /\ trace = <<"triage", "design", "development", "code-review">>

\* an iteration of _drive starts: the loop condition holds and the calls of the
\* iteration before are made
IterationStarts == pc = "drive" /\ Idle /\ loop_guard(iteration)

\* C36: at the start of every iteration of _drive the issue carries the label
\* of task.current_stage and no other stage label, except ready on an issue
\* that was queued with a stage label on it
C36_StageMatchesLabel ==
    IterationStarts
        => /\ task.current_stage \in labels
           /\ StageLabelsOn(labels) \subseteq {task.current_stage, "ready"}

C36_Witness ==
    /\ IterationStarts /\ iteration = 4
    /\ task.current_stage = "development" /\ task.review_cycles = 1
    /\ StageLabelsOn(labels) = {"development"}

\* C37 as stated: when run has returned, the issue it was called with no
\* longer carries ready
C37_ReadyRemovedByRun == pc = "after_run" => "ready" \notin labels

\* C38 as stated: an issue that handle_human_response labelled done and closed
\* had its change request merged
C38_DoneOnlyIfMerged == (closed /\ "done" \in labels) => merged

\* C39 as stated: a development pass that follows a code-review pass in the
\* same run is a revision, and it does not fail for want of modifications
C39_ReworkIsRevision ==
    /\ (IterationStarts /\ task.current_stage = "development"
            /\ last_handler = "code-review")
        => is_revision(task)
    /\ (pc = "returned" /\ last_handler = "development" /\ Len(trace) >= 2
            /\ trace[Len(trace) - 1] = "code-review" /\ cp.returned = "false")
        => result /= "failed"

\* the code-review passes of the run so far
Reviews == Cardinality({i \in 1..Len(trace) : trace[i] = "code-review"})

\* the run started at triage and every review so far said 'changes required'
OnlyChangesRequired ==
    /\ Len(trace) >= 1 /\ trace[1] = "triage"
    /\ Reviews = task.review_cycles

\* C40: a run from triage whose reviews all say 'changes required' and that
\* ends by the escalation or by the ceiling ends by the escalation, blocked,
\* after 2 + 2 * max_review_cycles iterations when max_review_cycles <= 9, and
\* by the ceiling, failed, after 20 iterations when max_review_cycles >= 10
C40_EscalationBeforeCeiling ==
    (RunEnded /\ OnlyChangesRequired /\ via \in {"escalated", "ceiling"})
        => IF max_review_cycles <= 9
           THEN /\ via = "escalated" /\ result = "blocked"
                /\ iteration = 2 + 2 * max_review_cycles
                /\ iteration <= max_iterations
           ELSE /\ via = "ceiling" /\ result = "failed"
                /\ iteration = max_iterations /\ handlers = max_iterations
                /\ task.review_cycles < max_review_cycles

C40_Witness ==
    /\ RunEnded /\ OnlyChangesRequired /\ via = "escalated"
    /\ max_review_cycles = 9 /\ iteration = 20 /\ result = "blocked"
    /\ "awaiting-human" \in labels

\* the ceiling is reached first with a limit of ten
C40_WitnessCeiling ==
    /\ RunEnded /\ OnlyChangesRequired /\ via = "ceiling"
    /\ max_review_cycles = 10 /\ task.review_cycles = 9 /\ result = "failed"

====
